---- MODULE Spec2Model ----
(***************************************************************************)
(* Model of ttydal's track cache (services/tracks_cache.py) and playback   *)
(* coordination (components/tracks_list.py, app.py, player.py).            *)
(***************************************************************************)
EXTENDS Integers, Sequences, FiniteSets, TLC

(***************************************************************************)
(* Bounds of the model.                                                    *)
(***************************************************************************)
\* TracksCache.max_tracks, a constructor parameter (scaled down)
MAX_TRACKS == 2
\* TracksCache.ttl, a constructor parameter, in clock ticks
TTL == 2
\* longest track list handed to set: one more than the cache can hold
MaxLen == MAX_TRACKS + 1
\* last value of the wall clock
MaxTime == 3

\* number of threads that call TracksCache()
NThreads == 2

\* number of background workers in flight at once
MaxLoads == 2

\* number of TrackSelected messages waiting for the player page
MaxInbox == 1


\* collection (album / playlist) ids
Ids == {"A", "B", "C"}

\* the track list of collection c with n tracks, as the service returns it
TrackList(c, n) == [i \in 1..n |-> [id |-> <<c, i>>]]

VARIABLES
    cache,        \* TracksCache._cache: OrderedDict as a sequence of [id, tracks]
    timestamps,   \* TracksCache._timestamps: id -> insertion time
    now,          \* time.time()
    call,         \* the last cache call and what it returned
    recency,      \* history: cached ids in the order of their last set / successful get
    insertedAt,   \* history: time of the last set of an id, NoTime once evicted, invalidated or cleared
    lastSet       \* history: for each cached id, the list passed to its most recent set

cacheVars == <<cache, timestamps, now, call, recency, insertedAt, lastSet>>

VARIABLES
    pc,           \* per thread: the line of TracksCache() it is about to execute
    lock,         \* TracksCache._lock: 0 when free, else the thread that holds it
    instance,     \* TracksCache._instance: "None" or "obj"
    attrs,        \* the attributes the instance has so far
    initialized,  \* instance._initialized (meaningful once the attribute exists)
    created,      \* history: number of objects built by super().__new__
    inits,        \* history: number of times __init__ assigned the entry map
    stored        \* history: ids stored through a finished reference and not evicted since

singletonVars == <<pc, lock, instance, attrs, initialized, created, inits, stored>>

VARIABLES
    api,                  \* what the streaming service holds: collection id -> number of tracks
    albums,               \* AlbumsList.albums: the ids of the listed collections
    tracks,               \* TracksList.tracks
    current_item_id,      \* TracksList.current_item_id ("None" before the first load)
    loads,                \* the _load_tracks_async workers in flight: [id, stage]
    preload_in_progress,  \* AlbumsList._preload_in_progress
    preload_timer,        \* a set_timer(0.5, self._start_preload) is pending
    sweeps                \* the _preload_all_tracks_async workers in flight: [pos, stage]

loadVars == <<api, albums, tracks, current_item_id, loads, preload_in_progress, preload_timer, sweeps>>

VARIABLES
    config_shuffle,         \* ConfigManager.shuffle
    current_playing_index,  \* TracksList.current_playing_index (NoIndex for None)
    shuffled_indices,       \* TracksList.shuffled_indices
    shuffle_position        \* TracksList.shuffle_position

shuffleVars == <<config_shuffle, current_playing_index, shuffled_indices, shuffle_position>>

VARIABLES
    config_auto_play,       \* ConfigManager.auto_play
    current_page,           \* TtydalApp.current_page
    prefetched_track_id,    \* TracksList._prefetched_track_id (NoTrack for None); the
                            \* url and metadata are stored and cleared with it
    prefetch_in_progress,   \* TracksList._prefetch_in_progress
    prefetches,             \* number of _prefetch_next_track workers that have not run yet
    ev                      \* the handler that ran last and what it posted

coordVars == <<config_auto_play, current_page, prefetched_track_id, prefetch_in_progress, prefetches>>

VARIABLES
    prefetched_url,         \* TracksList._prefetched_url: the track the url was resolved for
    prefetched_metadata,    \* TracksList._prefetched_metadata, with its _prefetched_error_info
    inbox,                  \* the TrackSelected messages posted and not yet handled
    playing_item_id         \* TracksList._playing_item_id

deliveryVars == <<prefetched_url, prefetched_metadata, inbox, playing_item_id>>

VARIABLES
    mpv,                    \* the player's event thread inside _on_track_end
    ui                      \* the UI thread inside a pre-fetch worker or a next / previous key

threadVars == <<mpv, ui>>

playVars == <<shuffleVars, coordVars, ev, deliveryVars, threadVars>>

vars == <<cacheVars, singletonVars, loadVars, playVars>>

(***************************************************************************)
(* TracksCache                                                             *)
(***************************************************************************)
\* keys of the OrderedDict
Keys(c) == {c[i].id : i \in DOMAIN c}

\* self._cache[item_id]
Lookup(c, id) == LET i == CHOOSE i \in DOMAIN c : c[i].id = id IN c[i].tracks

RECURSIVE SumLen(_)
SumLen(c) == IF c = <<>> THEN 0 ELSE Len(Head(c).tracks) + SumLen(Tail(c))

\* TracksCache._get_total_tracks
GetTotalTracks(c) == SumLen(c)

\* a dict of timestamps is a function on Ids; NoTime marks a key the dict does not hold
NoTime == 0 - 1

DictKeys(d) == {k \in DOMAIN d : d[k] # NoTime}

EmptyDict == [k \in Ids |-> NoTime]

\* dict.pop(item_id, None)
DictPop(d, id) == [d EXCEPT ![id] = NoTime]

\* d[item_id] = v
DictPut(d, id, v) == [d EXCEPT ![id] = v]

\* OrderedDict.__setitem__: a new key is appended, an existing key keeps its place
OrderedPut(c, id, new_tracks) ==
    IF id \in Keys(c)
    THEN [i \in DOMAIN c |-> IF c[i].id = id THEN [id |-> id, tracks |-> new_tracks] ELSE c[i]]
    ELSE Append(c, [id |-> id, tracks |-> new_tracks])

\* a get that leaves the entry where it is
MoveToEnd_Stay(c, id) == c

\* OrderedDict.move_to_end
MoveToEnd(c, id) ==
    Append(SelectSeq(c, LAMBDA e : e.id # id), [id |-> id, tracks |-> Lookup(c, id)])

\* a removal that forgets the timestamp map
RemoveEntry_KeepStamp(st, id) ==
    IF id \notin Keys(st.cache)
    THEN st
    ELSE [cache |-> SelectSeq(st.cache, LAMBDA e : e.id # id),
          ts    |-> st.ts]

\* a removal that drops one track of a longer entry instead of the entry
RemoveEntry_Partial(st, id) ==
    IF id \notin Keys(st.cache)
    THEN st
    ELSE IF Len(Lookup(st.cache, id)) > 1
    THEN [st EXCEPT !.cache = OrderedPut(st.cache, id, Tail(Lookup(st.cache, id)))]
    ELSE [cache |-> SelectSeq(st.cache, LAMBDA e : e.id # id),
          ts    |-> DictPop(st.ts, id)]

\* TracksCache._remove_entry; st = [cache, ts]
RemoveEntry(st, id) ==
    IF id \notin Keys(st.cache)
    THEN st
    ELSE [cache |-> SelectSeq(st.cache, LAMBDA e : e.id # id),
          ts    |-> DictPop(st.ts, id)]

\* the return value of _remove_entry
RemovedCount(st, id) ==
    IF id \notin Keys(st.cache) THEN 0 ELSE Len(Lookup(st.cache, id))

RECURSIVE RemoveAll(_, _)
RemoveAll(st, S) ==
    IF S = {} THEN st
    ELSE LET id == CHOOSE x \in S : TRUE
         IN RemoveAll(RemoveEntry(st, id), S \ {id})

\* an expiry test that already fires at age ttl
IsExpired_AtTTL(t, timestamp) == t - timestamp >= TTL

\* the test of _expire_old_entries
IsExpired(t, timestamp) == t - timestamp > TTL

\* TracksCache._expire_old_entries at time t
ExpireOldEntries(st, t) ==
    RemoveAll(st, {id \in DictKeys(st.ts) : IsExpired(t, st.ts[id])})

\* an eviction that gives up after the oldest entry
EvictLoop_Once(st, current_total, new_track_count) ==
    IF current_total + new_track_count > MAX_TRACKS /\ st.cache # <<>>
    THEN RemoveEntry(st, Head(st.cache).id)
    ELSE st

\* an eviction that empties the cache as soon as the new list does not fit
EvictLoop_All(st, current_total, new_track_count) ==
    IF current_total + new_track_count > MAX_TRACKS /\ st.cache # <<>>
    THEN [cache |-> <<>>, ts |-> EmptyDict]
    ELSE st

\* the eviction loop of TracksCache.set
RECURSIVE EvictLoop(_, _, _)
EvictLoop(st, current_total, new_track_count) ==
    IF current_total + new_track_count > MAX_TRACKS /\ st.cache # <<>>
    THEN LET oldest_id == Head(st.cache).id
         IN EvictLoop(RemoveEntry(st, oldest_id),
                      current_total - RemovedCount(st, oldest_id),
                      new_track_count)
    ELSE st

\* a get that, like a defaultdict, leaves an empty entry behind on a miss
CacheGet_Default(st, t, id) ==
    LET s1 == ExpireOldEntries(st, t)
    IN IF id \notin Keys(s1.cache)
       THEN [st |-> [s1 EXCEPT !.cache = OrderedPut(s1.cache, id, <<>>)],
             hit |-> FALSE, out |-> <<>>]
       ELSE [st  |-> [s1 EXCEPT !.cache = MoveToEnd(s1.cache, id)],
             hit |-> TRUE,
             out |-> Lookup(s1.cache, id)]

\* a get that restarts the time to live of the entry it returns
CacheGet_Refresh(st, t, id) ==
    LET s1 == ExpireOldEntries(st, t)
    IN IF id \notin Keys(s1.cache)
       THEN [st |-> s1, hit |-> FALSE, out |-> <<>>]
       ELSE [st  |-> [cache |-> MoveToEnd(s1.cache, id), ts |-> DictPut(s1.ts, id, t)],
             hit |-> TRUE,
             out |-> Lookup(s1.cache, id)]

\* TracksCache.get: the new state and the returned value
CacheGet(st, t, id) ==
    LET s1 == ExpireOldEntries(st, t)
    IN IF id \notin Keys(s1.cache)
       THEN [st |-> s1, hit |-> FALSE, out |-> <<>>]
       ELSE [st  |-> [s1 EXCEPT !.cache = MoveToEnd(s1.cache, id)],
             hit |-> TRUE,
             out |-> Lookup(s1.cache, id)]

\* a set that makes room before it removes the old entry of the same id
CacheSet_CountOld(st, t, id, new_tracks) ==
    LET s1 == ExpireOldEntries(st, t)
        s2 == EvictLoop(s1, GetTotalTracks(s1.cache), Len(new_tracks))
        s3 == IF id \in Keys(s2.cache) THEN RemoveEntry(s2, id) ELSE s2
    IN [cache |-> OrderedPut(s3.cache, id, new_tracks),
        ts    |-> DictPut(s3.ts, id, t)]

\* a set that appends the new entry without looking for an entry of the same id
CacheSet_Append(st, t, id, new_tracks) ==
    LET s1 == ExpireOldEntries(st, t)
        s3 == EvictLoop(s1, GetTotalTracks(s1.cache), Len(new_tracks))
    IN [cache |-> Append(s3.cache, [id |-> id, tracks |-> new_tracks]),
        ts    |-> DictPut(s3.ts, id, t)]

\* TracksCache.set
CacheSet(st, t, id, new_tracks) ==
    LET s1 == ExpireOldEntries(st, t)
        s2 == IF id \in Keys(s1.cache) THEN RemoveEntry(s1, id) ELSE s1
        s3 == EvictLoop(s2, GetTotalTracks(s2.cache), Len(new_tracks))
    IN [cache |-> OrderedPut(s3.cache, id, new_tracks),
        ts    |-> DictPut(s3.ts, id, t)]

\* the flattening loop of get_all_tracks: a copy of each track, tagged with its owner
RECURSIVE Flatten(_)
Flatten(c) ==
    IF c = <<>> THEN <<>>
    ELSE [i \in 1..Len(Head(c).tracks) |->
            [id |-> Head(c).tracks[i].id, cache_album_id |-> Head(c).id]]
         \o Flatten(Tail(c))

\* a get_all_tracks that tags the cached dicts themselves instead of copies
CacheGetAllTracks_InPlace(st, t) ==
    LET s1 == ExpireOldEntries(st, t)
        tagged == [i \in DOMAIN s1.cache |->
                     [id |-> s1.cache[i].id,
                      tracks |-> [j \in DOMAIN s1.cache[i].tracks |->
                                    [id |-> s1.cache[i].tracks[j].id,
                                     cache_album_id |-> s1.cache[i].id]]]]
    IN [st |-> [s1 EXCEPT !.cache = tagged], out |-> Flatten(s1.cache)]

\* TracksCache.get_all_tracks
CacheGetAllTracks(st, t) ==
    LET s1 == ExpireOldEntries(st, t)
    IN [st |-> s1, out |-> Flatten(s1.cache)]

\* an invalidate that drops the whole cache
CacheInvalidate_Clear(st, id) ==
    IF id \in Keys(st.cache) THEN [cache |-> <<>>, ts |-> EmptyDict] ELSE st

\* TracksCache.invalidate
CacheInvalidate(st, id) ==
    IF id \in Keys(st.cache) THEN RemoveEntry(st, id) ELSE st

\* TracksCache.clear
CacheClear(st) == [cache |-> <<>>, ts |-> EmptyDict]

\* TracksCache.get_stats
CacheGetStats(st, t) ==
    LET s1 == ExpireOldEntries(st, t)
    IN [st |-> s1,
        albums_count |-> Len(s1.cache),
        tracks_count |-> GetTotalTracks(s1.cache)]

Threads == 1..NThreads

\* current_playing_index is None
NoIndex == 0 - 1

\* _prefetched_track_id is None
NoTrack == <<>>

(***************************************************************************)
(* TidalClient.get_track_url and PlaybackService.play_track.  A stream url *)
(* is named by the track it was resolved for, stream metadata by the       *)
(* quality of the stream; <<>> stands for None.                            *)
(***************************************************************************)
Qualities == {"max", "high", "low"}

\* what track.get_stream() does at one quality: a stream, a falsy stream, a
\* 401 error, another error
TierOutcomes == {"stream", "no_stream", "unauthorized", "error"}

\* the service as one call sees it: session.check_login(), whether
\* session.track() works, what each quality gives
Envs == [logged_in : BOOLEAN, track_ok : BOOLEAN, tiers : [Qualities -> TierOutcomes]]

\* a fallback table that skips the middle tier
QualityOrder_SkipHigh(quality) ==
    IF quality = "max" THEN <<"max", "low">>
    ELSE IF quality = "low" THEN <<"low">>
    ELSE <<"high", "low">>

\* quality_order.get(quality, ["high", "low"])
QualityOrder(quality) ==
    IF quality = "max" THEN <<"max", "high", "low">>
    ELSE IF quality = "low" THEN <<"low">>
    ELSE <<"high", "low">>

\* error_info as get_track_url creates it; {} read through .get() gives the same defaults
NewErrorInfo(quality) ==
    [requested_quality |-> quality, actual_quality |-> "None", fallback_applied |-> FALSE,
     error |-> "None", tried_qualities |-> <<>>]

\* last_error after a tier failed
TierError(outcome) ==
    IF outcome = "no_stream" THEN "No stream available"
    ELSE IF outcome = "unauthorized" THEN "Not available at this quality"
    ELSE "error"

\* the loop over qualities_to_try
RECURSIVE TryQualities(_, _, _, _, _)
TryQualities(track_id, quality, qualities_to_try, tiers, error_info) ==
    IF qualities_to_try = <<>>
    THEN [track_url |-> <<>>, stream_metadata |-> <<>>, error_info |-> error_info]
    ELSE LET attempt_quality == Head(qualities_to_try)
             tried == Append(error_info.tried_qualities, attempt_quality)
         IN IF tiers[attempt_quality] = "stream"
            THEN [track_url |-> track_id,
                  stream_metadata |-> <<attempt_quality>>,
                  error_info |-> [error_info EXCEPT
                                    !.tried_qualities = tried,
                                    !.actual_quality = attempt_quality,
                                    !.fallback_applied = (attempt_quality # quality),
                                    !.error = "None"]]
            ELSE TryQualities(track_id, quality, Tail(qualities_to_try), tiers,
                              [error_info EXCEPT
                                 !.tried_qualities = tried,
                                 !.error = TierError(tiers[attempt_quality])])

\* TidalClient.get_track_url
GetTrackUrl(track_id, quality, env) ==
    IF ~env.logged_in
    THEN [track_url |-> <<>>, stream_metadata |-> <<>>,
          error_info |-> [NewErrorInfo(quality) EXCEPT !.error = "Not logged in"]]
    ELSE IF ~env.track_ok
    THEN [track_url |-> <<>>, stream_metadata |-> <<>>,
          error_info |-> [NewErrorInfo(quality) EXCEPT !.error = "Failed to fetch track"]]
    ELSE TryQualities(track_id, quality, QualityOrder(quality), env.tiers,
                      NewErrorInfo(quality))

\* a play_track that starts the player whatever the resolution gave
Played_OnFailure(track_id, r, resolved) ==
    [success |-> r.track_url # <<>> /\ r.stream_metadata # <<>>,
     error_message |-> r.error_info.error,
     stream_metadata |-> r.stream_metadata,
     fallback_applied |-> r.error_info.fallback_applied,
     requested_quality |-> r.error_info.requested_quality,
     actual_quality |-> r.error_info.actual_quality,
     tried_qualities |-> r.error_info.tried_qualities,
     played |-> <<[url |-> r.track_url, track_id |-> track_id]>>,
     resolved |-> resolved]

\* the PlaybackResult of play_track, the urls it handed to player.play and
\* the number of get_track_url calls it made
Played(track_id, r, resolved) ==
    IF r.track_url # <<>> /\ r.stream_metadata # <<>>
    THEN [success |-> TRUE, error_message |-> "None",
          stream_metadata |-> r.stream_metadata,
          fallback_applied |-> r.error_info.fallback_applied,
          requested_quality |-> r.error_info.requested_quality,
          actual_quality |-> r.error_info.actual_quality,
          tried_qualities |-> r.error_info.tried_qualities,
          played |-> <<[url |-> r.track_url, track_id |-> track_id]>>,
          resolved |-> resolved]
    ELSE [success |-> FALSE, error_message |-> r.error_info.error,
          stream_metadata |-> <<>>,
          fallback_applied |-> FALSE,
          requested_quality |-> r.error_info.requested_quality,
          actual_quality |-> "None",
          tried_qualities |-> r.error_info.tried_qualities,
          played |-> <<>>,
          resolved |-> resolved]

\* a play_track that resolves the url itself even when it was given one
PlayTrack_Resolve(track_id, quality, with_url, with_metadata, with_error_info, env) ==
    Played(track_id, GetTrackUrl(track_id, quality, env), 1)

\* PlaybackService.play_track
PlayTrack(track_id, quality, with_url, with_metadata, with_error_info, env) ==
    IF with_url # <<>> /\ with_metadata # <<>>
    THEN Played(track_id,
                [track_url |-> with_url, stream_metadata |-> with_metadata,
                 error_info |-> with_error_info],
                0)
    ELSE Played(track_id, GetTrackUrl(track_id, quality, env), 1)

\* no get_track_url or play_track call was made by the last step
NoPlayback ==
    [track_id |-> <<>>, quality |-> "None",
     prefetched_url |-> <<>>, prefetched_metadata |-> <<>>,
     env |-> [logged_in |-> FALSE, track_ok |-> FALSE,
              tiers |-> [q \in Qualities |-> "error"]],
     url |-> [track_url |-> <<>>, stream_metadata |-> <<>>,
              error_info |-> NewErrorInfo("None")],
     result |-> Played(<<>>, [track_url |-> <<>>, stream_metadata |-> <<>>,
                              error_info |-> NewErrorInfo("None")], 0)]

\* what a handler leaves for the observer: its name, the TrackSelected
\* messages it posted, the playing index a next / previous key found, the
\* get_track_url / play_track call it made, and the playing indexes that the
\* natural EOF events since the last user action started from and moved to
\* (NoIndex for an EOF that posted no play request), whether a time-position
\* event started a pre-fetch since the playing track last changed, and, for an
\* end-file event that posted, whether one had been started for the ended track
NoEv == [name |-> "other", posted |-> <<>>, from |-> NoIndex, playback |-> NoPlayback,
         run |-> <<>>, fetched |-> FALSE, after_fetch |-> FALSE]

(***************************************************************************)
(* TracksList: the shuffle order                                           *)
(***************************************************************************)
\* list.remove(x)
SeqRemove(seq, x) == SelectSeq(seq, LAMBDA y : y # x)

\* the outcomes of random.shuffle(list(range(n)))
Perms(n) ==
    {p \in [1..n -> 0..(n - 1)] : \A i, j \in 1..n : i # j => p[i] # p[j]}

\* TracksList._generate_shuffle_order with shuffled the outcome of random.shuffle
GenerateShuffleOrder(n, cpi, shuffled, pos) ==
    IF n = 0
    THEN [indices |-> <<>>, position |-> 0]
    ELSE IF cpi # NoIndex /\ (\E i \in DOMAIN shuffled : shuffled[i] = cpi)
    THEN [indices |-> <<cpi>> \o SeqRemove(shuffled, cpi), position |-> 0]
    ELSE [indices |-> shuffled, position |-> pos]

\* self._generate_shuffle_order() with n tracks in self.tracks
DoGenerateShuffleOrder(n) ==
    \E shuffled \in Perms(n) :
    \E r \in {GenerateShuffleOrder(n, current_playing_index, shuffled, shuffle_position)} :
        /\ shuffled_indices' = r.indices
        /\ shuffle_position' = r.position

AllAttrs == {"_initialized", "_cache", "_timestamps", "max_tracks", "ttl"}

(***************************************************************************)
(* The cache driven by an arbitrary sequence of calls.                     *)
(***************************************************************************)
CacheState == [cache |-> cache, ts |-> timestamps]

NoCall == [name |-> "none", id |-> "-", arg |-> <<>>, hit |-> FALSE, out |-> <<>>,
           evicted |-> {}, albums_count |-> 0, tracks_count |-> 0, held |-> FALSE]

\* history bookkeeping: drop the ids that left the cache
Restrict(seq, S) == SelectSeq(seq, LAMBDA x : x \in S)

Touch(seq, id) == Append(SelectSeq(seq, LAMBDA x : x # id), id)

KeepCached(f, c) == [k \in Ids |-> IF k \in Keys(c) THEN f[k] ELSE <<>>]

CacheInit ==
    /\ cache = <<>>
    /\ timestamps = EmptyDict
    /\ now = 0
    /\ call = NoCall
    /\ recency = <<>>
    /\ insertedAt = [k \in Ids |-> NoTime]
    /\ lastSet = [k \in Ids |-> <<>>]

\* the effect of a call on the cache and on the history variables
DoGet(id) ==
    \E r \in {CacheGet(CacheState, now, id)} :
       /\ cache' = r.st.cache
       /\ timestamps' = r.st.ts
       /\ call' = [NoCall EXCEPT !.name = "get", !.id = id, !.hit = r.hit, !.out = r.out]
       /\ recency' = IF r.hit THEN Touch(Restrict(recency, Keys(r.st.cache)), id)
                               ELSE Restrict(recency, Keys(r.st.cache))
       /\ lastSet' = KeepCached(lastSet, r.st.cache)
       /\ UNCHANGED insertedAt

DoSet(id, new_tracks) ==
    \E r \in {CacheSet(CacheState, now, id, new_tracks)} :
    \E live \in {Keys(ExpireOldEntries(CacheState, now).cache)} :
    \E evicted \in {(live \ {id}) \ Keys(r.cache)} :
       /\ cache' = r.cache
       /\ timestamps' = r.ts
       /\ call' = [NoCall EXCEPT !.name = "set", !.id = id, !.arg = new_tracks,
                                 !.evicted = evicted,
                                 !.held = (id \in Keys(cache))]
       /\ recency' = Touch(Restrict(recency, Keys(r.cache)), id)
       /\ insertedAt' = [k \in Ids |-> IF k = id THEN now
                                        ELSE IF k \in evicted THEN NoTime
                                        ELSE insertedAt[k]]
       /\ lastSet' = [KeepCached(lastSet, r.cache) EXCEPT ![id] = new_tracks]

DoGetAllTracks ==
    \E r \in {CacheGetAllTracks(CacheState, now)} :
       /\ cache' = r.st.cache
       /\ timestamps' = r.st.ts
       /\ call' = [NoCall EXCEPT !.name = "get_all_tracks", !.out = r.out]
       /\ recency' = Restrict(recency, Keys(r.st.cache))
       /\ lastSet' = KeepCached(lastSet, r.st.cache)
       /\ UNCHANGED insertedAt

DoInvalidate(id) ==
    \E r \in {CacheInvalidate(CacheState, id)} :
       /\ cache' = r.cache
       /\ timestamps' = r.ts
       /\ call' = [NoCall EXCEPT !.name = "invalidate", !.id = id,
                                 !.held = (id \in Keys(cache))]
       /\ recency' = Restrict(recency, Keys(r.cache))
       /\ insertedAt' = [insertedAt EXCEPT ![id] = NoTime]
       /\ lastSet' = KeepCached(lastSet, r.cache)

DoClear ==
    \E r \in {CacheClear(CacheState)} :
       /\ cache' = r.cache
       /\ timestamps' = r.ts
       /\ call' = [NoCall EXCEPT !.name = "clear"]
       /\ recency' = Restrict(recency, Keys(r.cache))
       /\ insertedAt' = [k \in Ids |-> NoTime]
       /\ lastSet' = KeepCached(lastSet, r.cache)

DoGetStats ==
    \E r \in {CacheGetStats(CacheState, now)} :
       /\ cache' = r.st.cache
       /\ timestamps' = r.st.ts
       /\ call' = [NoCall EXCEPT !.name = "get_stats",
                                 !.albums_count = r.albums_count,
                                 !.tracks_count = r.tracks_count]
       /\ recency' = Restrict(recency, Keys(r.st.cache))
       /\ lastSet' = KeepCached(lastSet, r.st.cache)
       /\ UNCHANGED insertedAt

Get(id) == DoGet(id) /\ UNCHANGED <<now, singletonVars, loadVars, playVars>>

Set(id, n) == DoSet(id, TrackList(id, n)) /\ UNCHANGED <<now, singletonVars, loadVars, playVars>>

GetAllTracks == DoGetAllTracks /\ UNCHANGED <<now, singletonVars, loadVars, playVars>>

Invalidate(id) == DoInvalidate(id) /\ UNCHANGED <<now, singletonVars, loadVars, playVars>>

Clear == DoClear /\ UNCHANGED <<now, singletonVars, loadVars, playVars>>

GetStats == DoGetStats /\ UNCHANGED <<now, singletonVars, loadVars, playVars>>

\* the wall clock advances between calls
Tick ==
    /\ now < MaxTime
    /\ now' = now + 1
    /\ call' = [NoCall EXCEPT !.name = "tick"]
    /\ UNCHANGED <<cache, timestamps, recency, insertedAt, lastSet, singletonVars, loadVars, playVars>>

\* the application sits idle for longer than the time to live
Elapse ==
    /\ now + TTL + 1 <= MaxTime
    /\ now' = now + TTL + 1
    /\ call' = [NoCall EXCEPT !.name = "tick"]
    /\ UNCHANGED <<cache, timestamps, recency, insertedAt, lastSet, singletonVars, loadVars, playVars>>

CacheNext ==
    \/ \E id \in Ids : Get(id)
    \/ \E id \in Ids, n \in 0..MaxLen : Set(id, n)
    \/ GetAllTracks
    \/ \E id \in Ids : Invalidate(id)
    \/ Clear
    \/ GetStats
    \/ Tick

\* the other components at rest
SingletonBuilt ==
    /\ pc = [t \in Threads |-> "done"]
    /\ lock = 0
    /\ instance = "obj"
    /\ attrs = AllAttrs
    /\ initialized = TRUE
    /\ created = 1
    /\ inits = 1
    /\ stored = {}

LoadIdle ==
    /\ api = [k \in Ids |-> 1]
    /\ albums = <<"A", "B", "C">>
    /\ tracks = <<>>
    /\ current_item_id = "None"
    /\ loads = <<>>
    /\ preload_in_progress = FALSE
    /\ preload_timer = FALSE
    /\ sweeps = <<>>

\* a thread that is in no handler.  Inside a handler it holds the line it
\* is about to execute and the handler's locals: next_index, the id of
\* next_track, prefetched_url (track_url in the worker) and
\* prefetched_metadata; from is the playing index when the handler started and
\* raced tells that an end-file handler and a next / previous key both
\* started from that index, before either had moved it
IdleThread ==
    [pc |-> "idle", next_index |-> NoIndex, track_id |-> <<>>, url |-> <<>>,
     metadata |-> <<>>, from |-> NoIndex, raced |-> FALSE]

ThreadsIdle == mpv = IdleThread /\ ui = IdleThread

DeliveryIdle ==
    /\ prefetched_url = <<>>
    /\ prefetched_metadata = <<>>
    /\ inbox = <<>>
    /\ playing_item_id = "None"

PlayIdle ==
    /\ config_shuffle = FALSE
    /\ current_playing_index = NoIndex
    /\ shuffled_indices = <<>>
    /\ shuffle_position = 0
    /\ config_auto_play = TRUE
    /\ current_page = "player"
    /\ prefetched_track_id = NoTrack
    /\ prefetch_in_progress = FALSE
    /\ prefetches = 0
    /\ ev = NoEv
    /\ DeliveryIdle
    /\ ThreadsIdle

Init == CacheInit /\ SingletonBuilt /\ LoadIdle /\ PlayIdle

Next == CacheNext

Spec == Init /\ [][Next]_vars

(***************************************************************************)
(* Track-list loads (TracksList) and the background preload (AlbumsList).  *)
(* Both run as coroutines on the UI event loop: a worker is suspended      *)
(* while it awaits the service and runs undisturbed otherwise.  The model  *)
(* lets other work in between two cache calls of the preload loop as well, *)
(* which only adds interleavings.                                          *)
(***************************************************************************)
RemoveAt(seq, i) == [j \in 1..(Len(seq) - 1) |-> IF j < i THEN seq[j] ELSE seq[j + 1]]

\* the dict _load_tracks_async appends to self.tracks for a cached track
ViewTrack(t) == [id |-> t.id]

\* lines 429-471 of _load_tracks_async: populate the view, reshuffle
PopulateTracks(list) ==
    /\ tracks' = tracks \o [i \in DOMAIN list |-> ViewTrack(list[i])]
    /\ IF config_shuffle
       THEN DoGenerateShuffleOrder(Len(tracks) + Len(list))
       ELSE UNCHANGED <<shuffled_indices, shuffle_position>>

\* what awaiting the tracks service can give: the list, [] when the client
\* swallowed an API error, or TidalServiceError
FetchOutcomes == {"ok", "empty", "raise"}

Fetched(id, outcome) == IF outcome = "ok" THEN TrackList(id, api[id]) ELSE <<>>

\* TracksList.load_tracks
DoLoadTracks(id) ==
    /\ current_item_id' = id
    /\ tracks' = <<>>
    /\ loads' = Append(loads, [id |-> id, stage |-> "get"])

LoadTracks(id) ==
    /\ Len(loads) + Len(sweeps) < MaxLoads
    /\ DoLoadTracks(id)
    /\ ev' = NoEv
    /\ UNCHANGED <<api, albums, preload_in_progress, preload_timer, sweeps>>
    /\ UNCHANGED <<cacheVars, singletonVars, shuffleVars, coordVars, deliveryVars, threadVars>>

\* _load_tracks_async up to the await: cache.get, and the whole of it on a hit
LoadWorkerGet(i) ==
    /\ loads[i].stage = "get"
    /\ DoGet(loads[i].id)
    /\ IF call'.hit
       THEN /\ PopulateTracks(call'.out)
            /\ loads' = RemoveAt(loads, i)
       ELSE /\ loads' = [loads EXCEPT ![i].stage = "fetch"]
            /\ UNCHANGED <<tracks, shuffled_indices, shuffle_position>>
    /\ UNCHANGED <<api, albums, current_item_id, preload_in_progress, preload_timer, sweeps>>
    /\ ev' = NoEv
    /\ UNCHANGED <<now, singletonVars, config_shuffle, current_playing_index, coordVars, deliveryVars, threadVars>>

\* _load_tracks_async resumed after the await: cache.set and populate, or the
\* except branch
LoadWorkerFetched(i, outcome) ==
    /\ loads[i].stage = "fetch"
    /\ loads' = RemoveAt(loads, i)
    /\ IF outcome = "raise"
       THEN UNCHANGED <<cache, timestamps, call, recency, insertedAt, lastSet,
                        tracks, shuffled_indices, shuffle_position>>
       ELSE /\ DoSet(loads[i].id, Fetched(loads[i].id, outcome))
            /\ PopulateTracks(Fetched(loads[i].id, outcome))
    /\ UNCHANGED <<api, albums, current_item_id, preload_in_progress, preload_timer, sweeps>>
    /\ ev' = NoEv
    /\ UNCHANGED <<now, singletonVars, config_shuffle, current_playing_index, coordVars, deliveryVars, threadVars>>

\* TracksList.action_refresh_tracks
RefreshTracks ==
    /\ Len(loads) + Len(sweeps) < MaxLoads
    /\ current_item_id # "None"
    /\ DoInvalidate(current_item_id)
    /\ DoLoadTracks(current_item_id)
    /\ UNCHANGED <<api, albums, preload_in_progress, preload_timer, sweeps>>
    /\ ev' = NoEv
    /\ UNCHANGED <<now, singletonVars, shuffleVars, coordVars, deliveryVars, threadVars>>

\* AlbumsList._start_preload, run by the timer set after the albums were listed
StartPreload ==
    /\ preload_timer
    /\ preload_timer' = FALSE
    /\ IF preload_in_progress
       THEN UNCHANGED <<preload_in_progress, sweeps>>
       ELSE /\ preload_in_progress' = TRUE
            /\ sweeps' = Append(sweeps, [pos |-> 1, stage |-> "get"])
    /\ UNCHANGED <<api, albums, tracks, current_item_id, loads>>
    /\ ev' = NoEv
    /\ UNCHANGED <<cacheVars, singletonVars, shuffleVars, coordVars, deliveryVars, threadVars>>

\* _preload_all_tracks_async: the cache.get of one album
PreloadGet(k) ==
    /\ sweeps[k].stage = "get"
    /\ sweeps[k].pos <= Len(albums)
    /\ DoGet(albums[sweeps[k].pos])
    /\ sweeps' = IF call'.hit THEN [sweeps EXCEPT ![k].pos = @ + 1]
                              ELSE [sweeps EXCEPT ![k].stage = "fetch"]
    /\ UNCHANGED <<api, albums, tracks, current_item_id, loads, preload_in_progress, preload_timer>>
    /\ ev' = NoEv
    /\ UNCHANGED <<now, singletonVars, shuffleVars, coordVars, deliveryVars, threadVars>>

\* _preload_all_tracks_async resumed after the await: cache.set, or the except branch
PreloadFetched(k, outcome) ==
    /\ sweeps[k].stage = "fetch"
    /\ sweeps' = [sweeps EXCEPT ![k] = [pos |-> @.pos + 1, stage |-> "get"]]
    /\ IF outcome = "raise"
       THEN UNCHANGED <<cache, timestamps, call, recency, insertedAt, lastSet>>
       ELSE DoSet(albums[sweeps[k].pos], Fetched(albums[sweeps[k].pos], outcome))
    /\ UNCHANGED <<api, albums, tracks, current_item_id, loads, preload_in_progress, preload_timer>>
    /\ ev' = NoEv
    /\ UNCHANGED <<now, singletonVars, shuffleVars, coordVars, deliveryVars, threadVars>>

\* _preload_all_tracks_async after the loop: the flag is reset, get_stats is logged
PreloadFinish(k) ==
    /\ sweeps[k].stage = "get"
    /\ sweeps[k].pos > Len(albums)
    /\ preload_in_progress' = FALSE
    /\ DoGetStats
    /\ sweeps' = RemoveAt(sweeps, k)
    /\ UNCHANGED <<api, albums, tracks, current_item_id, loads, preload_timer>>
    /\ ev' = NoEv
    /\ UNCHANGED <<now, singletonVars, shuffleVars, coordVars, deliveryVars, threadVars>>

\* AlbumsList.action_refresh_albums; the reload of the albums ends by setting the timer
RefreshAlbums ==
    /\ Len(loads) + Len(sweeps) < MaxLoads
    /\ DoClear
    /\ preload_in_progress' = FALSE
    /\ preload_timer' = TRUE
    /\ UNCHANGED <<api, albums, tracks, current_item_id, loads, sweeps>>
    /\ ev' = NoEv
    /\ UNCHANGED <<now, singletonVars, shuffleVars, coordVars, deliveryVars, threadVars>>

\* the track lists of the service differ in length from album to album
LoadInit ==
    /\ api = [k \in Ids |-> IF k = "B" THEN MAX_TRACKS ELSE 1]
    /\ albums = <<"A", "B">>
    /\ tracks = <<>>
    /\ current_item_id = "None"
    /\ loads = <<>>
    /\ preload_in_progress = FALSE
    /\ preload_timer = TRUE
    /\ sweeps = <<>>
    /\ CacheInit
    /\ SingletonBuilt
    /\ PlayIdle

LoadNext ==
    \/ \E i \in 1..Len(albums) : LoadTracks(albums[i])
    \/ \E i \in DOMAIN loads : LoadWorkerGet(i)
    \/ \E i \in DOMAIN loads, outcome \in FetchOutcomes : LoadWorkerFetched(i, outcome)
    \/ RefreshTracks
    \/ StartPreload
    \/ \E k \in DOMAIN sweeps : PreloadGet(k)
    \/ \E k \in DOMAIN sweeps, outcome \in FetchOutcomes : PreloadFetched(k, outcome)
    \/ \E k \in DOMAIN sweeps : PreloadFinish(k)
    \/ RefreshAlbums
    \/ Elapse

SpecLoad == LoadInit /\ [][LoadNext]_vars

(***************************************************************************)
(* The playback coordinator: TracksList, the key bindings of TtydalApp and *)
(* the end-file callback of Player.  Track indices are 0-based as in the   *)
(* code; shuffled_indices is a sequence of them.                           *)
(***************************************************************************)
\* seconds before the end of a track at which the next one is pre-fetched
PREFETCH_SECONDS_BEFORE_END == 15

\* EndFileReason, and an end-file event that carries no data
Reasons == {"EOF", "RESTARTED", "ABORTED", "QUIT", "ERROR", "REDIRECT", "NODATA"}

\* an end-file callback that forwards every event to the on_track_end callbacks
EndFileForwards_Any(reason) == TRUE

\* Player end_file_callback: the test that lets the on_track_end callbacks run
EndFileForwards(reason) == reason = "EOF"

\* list.index(x), 0-based
IndexOf(seq, x) ==
    (CHOOSE i \in DOMAIN seq : seq[i] = x /\ \A j \in DOMAIN seq : seq[j] = x => i <= j) - 1

\* a shuffle branch that trusts shuffle_position
LocatePosition_Assumed(indices, position, cpi) ==
    position

\* the position the shuffle branch starts from: lines 318-324 and 344-350
LocatePosition(indices, position, cpi) ==
    IF cpi = NoIndex THEN position
    ELSE IF \E i \in DOMAIN indices : indices[i] = cpi THEN IndexOf(indices, cpi)
    ELSE 0

\* a sequential next that does not wrap
GetNextTrackIndex_NoWrap(shuffle, indices, position, cpi, n) ==
    IF shuffle /\ indices # <<>>
    THEN LET next_shuffle_pos == (LocatePosition(indices, position, cpi) + 1) % Len(indices)
         IN [index |-> indices[next_shuffle_pos + 1], position |-> next_shuffle_pos,
             raised |-> FALSE]
    ELSE IF cpi = NoIndex THEN [index |-> 0, position |-> position, raised |-> FALSE]
    ELSE IF n = 0 THEN [index |-> NoIndex, position |-> position, raised |-> TRUE]
    ELSE [index |-> cpi + 1, position |-> position, raised |-> FALSE]

\* TracksList._get_next_track_index: the index returned, the shuffle_position
\* it leaves, whether it raised (ZeroDivisionError on an empty list)
GetNextTrackIndex(shuffle, indices, position, cpi, n) ==
    IF shuffle /\ indices # <<>>
    THEN LET next_shuffle_pos == (LocatePosition(indices, position, cpi) + 1) % Len(indices)
         IN [index |-> indices[next_shuffle_pos + 1], position |-> next_shuffle_pos,
             raised |-> FALSE]
    ELSE IF cpi = NoIndex THEN [index |-> 0, position |-> position, raised |-> FALSE]
    ELSE IF n = 0 THEN [index |-> NoIndex, position |-> position, raised |-> TRUE]
    ELSE [index |-> (cpi + 1) % n, position |-> position, raised |-> FALSE]

\* a sequential previous that does not wrap
GetPreviousTrackIndex_NoWrap(shuffle, indices, position, cpi, n) ==
    IF shuffle /\ indices # <<>>
    THEN LET prev_shuffle_pos == (LocatePosition(indices, position, cpi) - 1) % Len(indices)
         IN [index |-> indices[prev_shuffle_pos + 1], position |-> prev_shuffle_pos,
             raised |-> FALSE]
    ELSE IF cpi = NoIndex THEN [index |-> n - 1, position |-> position, raised |-> FALSE]
    ELSE IF n = 0 THEN [index |-> NoIndex, position |-> position, raised |-> TRUE]
    ELSE [index |-> cpi - 1, position |-> position, raised |-> FALSE]

\* TracksList._get_previous_track_index
GetPreviousTrackIndex(shuffle, indices, position, cpi, n) ==
    IF shuffle /\ indices # <<>>
    THEN LET prev_shuffle_pos == (LocatePosition(indices, position, cpi) - 1) % Len(indices)
         IN [index |-> indices[prev_shuffle_pos + 1], position |-> prev_shuffle_pos,
             raised |-> FALSE]
    ELSE IF cpi = NoIndex THEN [index |-> n - 1, position |-> position, raised |-> FALSE]
    ELSE IF n = 0 THEN [index |-> NoIndex, position |-> position, raised |-> TRUE]
    ELSE [index |-> (cpi - 1) % n, position |-> position, raised |-> FALSE]

\* self.tracks[index] does not raise IndexError
InRange(index) == index >= 0 /\ index < Len(tracks)

\* a message that always claims to carry a pre-fetched stream
TrackSelected_Always(index, use_prefetch) ==
    [track_id |-> tracks[index + 1].id,
     prefetched_url |-> tracks[index + 1].id,
     prefetched_metadata |-> <<"high">>]

\* the TrackSelected message for the track at index
TrackSelected(index, use_prefetch) ==
    IF use_prefetch /\ prefetched_track_id = tracks[index + 1].id
    THEN [track_id |-> tracks[index + 1].id,
          prefetched_url |-> prefetched_url,
          prefetched_metadata |-> prefetched_metadata]
    ELSE [track_id |-> tracks[index + 1].id,
          prefetched_url |-> <<>>,
          prefetched_metadata |-> <<>>]

NextHere ==
    GetNextTrackIndex(config_shuffle, shuffled_indices, shuffle_position,
                      current_playing_index, Len(tracks))

PreviousHere ==
    GetPreviousTrackIndex(config_shuffle, shuffled_indices, shuffle_position,
                          current_playing_index, Len(tracks))

\* the run of natural EOF events after one more of them moved to index
Run(index) ==
    IF ev.run = <<>> \/ Len(ev.run) > Len(tracks)
    THEN <<current_playing_index, index>>
    ELSE Append(ev.run, index)

\* Player end_file_callback and, through it, TracksList._on_track_end
EndFile(reason) ==
    /\ Len(inbox) < MaxInbox
    /\ IF \/ ~EndFileForwards(reason)
          \/ ~config_auto_play
          \/ current_playing_index = NoIndex
          \/ tracks = <<>>
       THEN /\ ev' = [NoEv EXCEPT !.name = "end_file"]
            /\ UNCHANGED <<current_playing_index, shuffle_position,
                           prefetched_track_id, prefetch_in_progress,
                           prefetched_url, prefetched_metadata, inbox>>
       ELSE \E r \in {NextHere} :
            IF r.raised \/ ~InRange(r.index)
            THEN /\ ev' = [NoEv EXCEPT !.name = "end_file", !.run = Run(NoIndex)]
                 /\ shuffle_position' = r.position
                 /\ UNCHANGED <<current_playing_index, prefetched_track_id,
                                prefetch_in_progress,
                                prefetched_url, prefetched_metadata, inbox>>
            ELSE /\ ev' = [NoEv EXCEPT !.name = "end_file",
                                       !.posted = <<TrackSelected(r.index, TRUE)>>,
                                       !.run = Run(r.index),
                                       !.after_fetch = ev.fetched]
                 /\ inbox' = Append(inbox, TrackSelected(r.index, TRUE))
                 /\ current_playing_index' = r.index
                 /\ shuffle_position' = r.position
                 /\ prefetched_track_id' = NoTrack
                 /\ prefetched_url' = <<>>
                 /\ prefetched_metadata' = <<>>
                 /\ prefetch_in_progress' = FALSE
    /\ UNCHANGED playing_item_id
    /\ UNCHANGED <<config_shuffle, shuffled_indices, config_auto_play, current_page, prefetches>>
    /\ UNCHANGED <<threadVars, cacheVars, singletonVars, loadVars>>

\* play_next_track and play_previous_track after the index was computed
PlayComputed(name, r) ==
    IF r.raised \/ ~InRange(r.index)
    THEN /\ ev' = [NoEv EXCEPT !.name = name, !.from = current_playing_index]
         /\ shuffle_position' = r.position
         /\ UNCHANGED <<current_playing_index, inbox, playing_item_id>>
    ELSE /\ ev' = [NoEv EXCEPT !.name = name, !.from = current_playing_index,
                               !.posted = <<TrackSelected(r.index, FALSE)>>]
         /\ inbox' = Append(inbox, TrackSelected(r.index, FALSE))
         /\ current_playing_index' = r.index
         /\ playing_item_id' = current_item_id
         /\ shuffle_position' = r.position

\* TtydalApp.action_play_next, PlayerPage.play_next, TracksList.play_next_track
ActionPlayNext ==
    /\ Len(inbox) < MaxInbox
    /\ IF current_page # "player" \/ tracks = <<>>
       THEN /\ ev' = NoEv
            /\ UNCHANGED <<current_playing_index, shuffle_position, inbox, playing_item_id>>
       ELSE \E r \in {NextHere} : PlayComputed("play_next", r)
    /\ UNCHANGED <<config_shuffle, shuffled_indices, coordVars,
                   prefetched_url, prefetched_metadata>>
    /\ UNCHANGED <<threadVars, cacheVars, singletonVars, loadVars>>

\* TtydalApp.action_play_previous, PlayerPage.play_previous, TracksList.play_previous_track
ActionPlayPrevious ==
    /\ Len(inbox) < MaxInbox
    /\ IF current_page # "player" \/ tracks = <<>>
       THEN /\ ev' = NoEv
            /\ UNCHANGED <<current_playing_index, shuffle_position, inbox, playing_item_id>>
       ELSE \E r \in {PreviousHere} : PlayComputed("play_previous", r)
    /\ UNCHANGED <<config_shuffle, shuffled_indices, coordVars,
                   prefetched_url, prefetched_metadata>>
    /\ UNCHANGED <<threadVars, cacheVars, singletonVars, loadVars>>

\* TracksList.on_list_view_selected for the row the user chose
OnListViewSelected(index) ==
    /\ Len(inbox) < MaxInbox
    /\ current_page = "player"
    /\ InRange(index)
    /\ current_playing_index' = index
    /\ playing_item_id' = current_item_id
    /\ ev' = [NoEv EXCEPT !.name = "select", !.posted = <<TrackSelected(index, FALSE)>>]
    /\ inbox' = Append(inbox, TrackSelected(index, FALSE))
    /\ UNCHANGED <<config_shuffle, shuffled_indices, shuffle_position, coordVars,
                   prefetched_url, prefetched_metadata>>
    /\ UNCHANGED <<threadVars, cacheVars, singletonVars, loadVars>>

\* TtydalApp.action_toggle_shuffle and, on the player page, TracksList.on_shuffle_changed
ActionToggleShuffle ==
    /\ config_shuffle' = ~config_shuffle
    /\ IF current_page = "player"
       THEN IF ~config_shuffle
            THEN DoGenerateShuffleOrder(Len(tracks))
            ELSE shuffled_indices' = <<>> /\ shuffle_position' = 0
       ELSE UNCHANGED <<shuffled_indices, shuffle_position>>
    /\ ev' = [NoEv EXCEPT !.name = "toggle_shuffle"]
    /\ UNCHANGED <<current_playing_index, coordVars, deliveryVars>>
    /\ UNCHANGED <<threadVars, cacheVars, singletonVars, loadVars>>

\* TtydalApp.action_toggle_auto_play
ActionToggleAutoPlay ==
    /\ config_auto_play' = ~config_auto_play
    /\ ev' = NoEv
    /\ UNCHANGED <<current_page, prefetched_track_id, prefetch_in_progress, prefetches,
                   deliveryVars>>
    /\ UNCHANGED <<threadVars, cacheVars, singletonVars, loadVars, shuffleVars>>

\* TtydalApp.action_show_player
ActionShowPlayer ==
    /\ current_page' = "player"
    /\ ev' = NoEv
    /\ UNCHANGED <<config_auto_play, prefetched_track_id, prefetch_in_progress, prefetches,
                   deliveryVars>>
    /\ UNCHANGED <<threadVars, cacheVars, singletonVars, loadVars, shuffleVars>>

\* TtydalApp.action_show_config
ActionShowConfig ==
    /\ current_page' = "config"
    /\ ev' = NoEv
    /\ UNCHANGED <<config_auto_play, prefetched_track_id, prefetch_in_progress, prefetches,
                   deliveryVars>>
    /\ UNCHANGED <<threadVars, cacheVars, singletonVars, loadVars, shuffleVars>>

\* a window test that forgets the margin of five seconds
InPrefetchWindow_NoMargin(duration, time_pos) ==
    /\ ~(duration <= 0 \/ duration < PREFETCH_SECONDS_BEFORE_END)
    /\ duration - time_pos <= PREFETCH_SECONDS_BEFORE_END
    /\ duration - time_pos > 0

\* the test of _on_time_pos_change that starts a pre-fetch
InPrefetchWindow(duration, time_pos) ==
    /\ ~(duration <= 0 \/ duration < PREFETCH_SECONDS_BEFORE_END + 5)
    /\ duration - time_pos <= PREFETCH_SECONDS_BEFORE_END
    /\ duration - time_pos > 0

\* durations and positions the player reports
Durations == {0, 19, 20, 30}

Positions == {10, 15, 30}

\* TracksList._on_time_pos_change
OnTimePosChange(duration, time_pos) ==
    /\ Len(loads) + prefetches < MaxLoads
    /\ IF \/ prefetched_track_id # NoTrack \/ prefetch_in_progress
          \/ current_playing_index = NoIndex \/ tracks = <<>>
          \/ ~config_auto_play
          \/ ~InPrefetchWindow(duration, time_pos)
       THEN /\ UNCHANGED <<prefetch_in_progress, prefetches>>
            /\ ev' = [NoEv EXCEPT !.run = ev.run, !.fetched = ev.fetched]
       ELSE /\ prefetch_in_progress' = TRUE
            /\ prefetches' = prefetches + 1
            /\ ev' = [NoEv EXCEPT !.run = ev.run, !.fetched = TRUE]
    /\ UNCHANGED <<config_auto_play, current_page, prefetched_track_id, deliveryVars>>
    /\ UNCHANGED <<threadVars, cacheVars, singletonVars, loadVars, shuffleVars>>

\* what get_track_url gives the pre-fetch: a url, no url, or an exception
UrlOutcomes == {"url", "none", "raise"}

\* TracksList._prefetch_next_track; it has no await and runs in one piece
PrefetchNextTrack(outcome) ==
    /\ prefetches > 0
    /\ prefetches' = prefetches - 1
    /\ \E r \in {NextHere} :
          /\ shuffle_position' = r.position
          /\ IF ~r.raised /\ InRange(r.index) /\ outcome = "url"
             THEN /\ prefetched_track_id' = tracks[r.index + 1].id
                  /\ prefetched_url' = tracks[r.index + 1].id
                  /\ prefetched_metadata' = <<"high">>
             ELSE UNCHANGED <<prefetched_track_id, prefetched_url, prefetched_metadata>>
    /\ prefetch_in_progress' = FALSE
    /\ ev' = [NoEv EXCEPT !.run = ev.run, !.fetched = ev.fetched]
    /\ UNCHANGED <<config_shuffle, current_playing_index, shuffled_indices,
                   config_auto_play, current_page, inbox, playing_item_id>>
    /\ UNCHANGED <<threadVars, cacheVars, singletonVars, loadVars>>

\* the error_info that comes with pre-fetched metadata: the one of the
\* resolution that gave it, or None, read as {}
PrefetchedErrorInfo(with_metadata) ==
    IF with_metadata = <<>> THEN NewErrorInfo("None")
    ELSE [NewErrorInfo("high") EXCEPT !.actual_quality = with_metadata[1],
                                      !.fallback_applied = TRUE,
                                      !.tried_qualities = <<"high", "low">>]

\* the quality setting the player page reads from the configuration
ConfigQuality == "high"

\* the service when the player page asks it for a stream: every quality
\* there, only the low one, none, or the session logged out
Services ==
    {[logged_in |-> TRUE, track_ok |-> TRUE, tiers |-> [q \in Qualities |-> "stream"]],
     [logged_in |-> TRUE, track_ok |-> TRUE,
      tiers |-> [q \in Qualities |-> IF q = "low" THEN "stream" ELSE "unauthorized"]],
     [logged_in |-> TRUE, track_ok |-> TRUE, tiers |-> [q \in Qualities |-> "no_stream"]],
     [logged_in |-> FALSE, track_ok |-> TRUE, tiers |-> [q \in Qualities |-> "stream"]]}

\* PlayerPage.on_tracks_list_track_selected for the oldest waiting message
OnTracksListTrackSelected(env) ==
    /\ inbox # <<>>
    /\ inbox' = Tail(inbox)
    /\ \E result \in {PlayTrack(Head(inbox).track_id, ConfigQuality,
                                 Head(inbox).prefetched_url,
                                 Head(inbox).prefetched_metadata,
                                 PrefetchedErrorInfo(Head(inbox).prefetched_metadata),
                                 env)} :
          ev' = [NoEv EXCEPT
                   !.name = "track_selected",
                   !.run = ev.run,
                   !.fetched = ev.fetched,
                   !.playback = [NoPlayback EXCEPT
                      !.track_id = Head(inbox).track_id,
                      !.quality = ConfigQuality,
                      !.env = env,
                      !.prefetched_url = Head(inbox).prefetched_url,
                      !.prefetched_metadata = Head(inbox).prefetched_metadata,
                      !.url = IF result.resolved = 1
                              THEN GetTrackUrl(Head(inbox).track_id, ConfigQuality, env)
                              ELSE NoPlayback.url,
                      !.result = result]]
    /\ UNCHANGED <<prefetched_url, prefetched_metadata, playing_item_id>>
    /\ UNCHANGED <<threadVars, cacheVars, singletonVars, loadVars, shuffleVars, coordVars>>

\* the application after start-up: the settings are read from the saved
\* configuration, two albums of three and two tracks are listed
PlayInit ==
    /\ api = [k \in Ids |-> IF k = "A" THEN 3 ELSE IF k = "B" THEN 2 ELSE 1]
    /\ albums = <<"A", "B">>
    /\ tracks = <<>>
    /\ current_item_id = "None"
    /\ loads = <<>>
    /\ preload_in_progress = FALSE
    /\ preload_timer = FALSE
    /\ sweeps = <<>>
    /\ CacheInit
    /\ SingletonBuilt
    /\ config_shuffle \in BOOLEAN
    /\ current_playing_index = NoIndex
    /\ shuffled_indices = <<>>
    /\ shuffle_position = 0
    /\ config_auto_play \in BOOLEAN
    /\ current_page = "player"
    /\ prefetched_track_id = NoTrack
    /\ prefetch_in_progress = FALSE
    /\ prefetches = 0
    /\ ev = NoEv
    /\ DeliveryIdle
    /\ ThreadsIdle

\* the user opens one track list at a time; the player page handles a posted
\* message before the next event (its handler reads nothing but the message)
PlayStep ==
    \/ \E i \in 1..Len(albums) : inbox = <<>> /\ loads = <<>> /\ LoadTracks(albums[i])
    \/ \E i \in DOMAIN loads : inbox = <<>> /\ LoadWorkerGet(i)
    \/ \E i \in DOMAIN loads, outcome \in {"ok", "raise"} :
          inbox = <<>> /\ LoadWorkerFetched(i, outcome)
    \/ inbox = <<>> /\ loads = <<>> /\ RefreshTracks
    \/ \E reason \in Reasons : EndFile(reason)
    \/ ActionPlayNext
    \/ ActionPlayPrevious
    \/ \E index \in 0..(Len(tracks) - 1) : OnListViewSelected(index)
    \/ inbox = <<>> /\ ActionToggleShuffle
    \/ inbox = <<>> /\ ActionToggleAutoPlay
    \/ inbox = <<>> /\ ActionShowPlayer
    \/ inbox = <<>> /\ ActionShowConfig
    \/ \E env \in Services : OnTracksListTrackSelected(env)

SpecPlay == PlayInit /\ [][PlayStep]_vars

\* auto-advance and pre-fetch on the player page, the shuffle setting as saved
AdvanceStep ==
    \/ \E i \in 1..Len(albums) : inbox = <<>> /\ loads = <<>> /\ LoadTracks(albums[i])
    \/ \E i \in DOMAIN loads : inbox = <<>> /\ LoadWorkerGet(i)
    \/ \E i \in DOMAIN loads, outcome \in {"ok", "raise"} :
          inbox = <<>> /\ LoadWorkerFetched(i, outcome)
    \/ \E index \in 0..(Len(tracks) - 1) : OnListViewSelected(index)
    \/ \E reason \in Reasons : EndFile(reason)
    \/ inbox = <<>> /\ ActionToggleAutoPlay
    \/ \E duration \in Durations, time_pos \in Positions :
          inbox = <<>> /\ OnTimePosChange(duration, time_pos)
    \/ \E outcome \in UrlOutcomes : inbox = <<>> /\ PrefetchNextTrack(outcome)
    \/ \E env \in Services : OnTracksListTrackSelected(env)

SpecAdvance == PlayInit /\ [][AdvanceStep]_vars

(***************************************************************************)
(* The coordinator with its two threads.  _on_track_end runs on the        *)
(* player's event thread, the keys and the pre-fetch worker (which has no  *)
(* await) run on the UI thread; nothing orders the statements of the one   *)
(* against the statements of the other.                                    *)
(***************************************************************************)
\* a thread at line pc that keeps its locals
At(thread, line) == [thread EXCEPT !.pc = line]

\* _on_track_end, lines 133-151: the guards, _get_next_track_index and
\* self.tracks[next_index]
TrackEndStart ==
    /\ mpv.pc = "idle"
    /\ inbox = <<>>
    /\ config_auto_play
    /\ current_playing_index # NoIndex
    /\ tracks # <<>>
    /\ \E r \in {NextHere} :
          /\ shuffle_position' = r.position
          /\ IF r.raised \/ ~InRange(r.index)
             THEN UNCHANGED <<mpv, ui>>
             ELSE /\ mpv' = [IdleThread EXCEPT
                               !.pc = "set_index",
                               !.next_index = r.index,
                               !.track_id = tracks[r.index + 1].id,
                               !.from = current_playing_index,
                               !.raced = (ui.pc = "key_set_index")]
                  /\ ui' = IF ui.pc = "key_set_index" THEN [ui EXCEPT !.raced = TRUE]
                           ELSE ui
    /\ ev' = NoEv
    /\ UNCHANGED <<config_shuffle, current_playing_index, shuffled_indices, coordVars,
                   deliveryVars>>
    /\ UNCHANGED <<cacheVars, singletonVars, loadVars>>

\* a statement of _on_track_end that changes only fields of the coordinator
\* listed in the conjunct before it
TrackEndLine(from_line, to_line) ==
    /\ mpv.pc = from_line
    /\ mpv' = At(mpv, to_line)
    /\ ev' = NoEv
    /\ UNCHANGED <<ui, config_shuffle, shuffled_indices, shuffle_position,
                   config_auto_play, current_page, prefetches, inbox, playing_item_id>>
    /\ UNCHANGED <<cacheVars, singletonVars, loadVars>>

\* line 157: self.current_playing_index = next_index
TrackEndSetIndex ==
    /\ current_playing_index' = mpv.next_index
    /\ UNCHANGED <<prefetched_track_id, prefetched_url, prefetched_metadata,
                   prefetch_in_progress>>
    /\ TrackEndLine("set_index", "check")

\* line 171: if self._prefetched_track_id == next_track["id"]
TrackEndCheck ==
    /\ UNCHANGED <<current_playing_index, prefetched_track_id, prefetched_url,
                   prefetched_metadata, prefetch_in_progress>>
    /\ IF prefetched_track_id = mpv.track_id
       THEN TrackEndLine("check", "read_url")
       ELSE TrackEndLine("check", "clear_id")

\* line 173: prefetched_url = self._prefetched_url
TrackEndReadUrl ==
    /\ mpv.pc = "read_url"
    /\ mpv' = [mpv EXCEPT !.pc = "read_metadata", !.url = prefetched_url]
    /\ ev' = NoEv
    /\ UNCHANGED <<ui, shuffleVars, coordVars, deliveryVars>>
    /\ UNCHANGED <<cacheVars, singletonVars, loadVars>>

\* lines 174-175: prefetched_metadata = self._prefetched_metadata, and the
\* error info stored with it
TrackEndReadMetadata ==
    /\ mpv.pc = "read_metadata"
    /\ mpv' = [mpv EXCEPT !.pc = "clear_id", !.metadata = prefetched_metadata]
    /\ ev' = NoEv
    /\ UNCHANGED <<ui, shuffleVars, coordVars, deliveryVars>>
    /\ UNCHANGED <<cacheVars, singletonVars, loadVars>>

\* _clear_prefetch_state, line 268
TrackEndClearId ==
    /\ prefetched_track_id' = NoTrack
    /\ UNCHANGED <<current_playing_index, prefetched_url, prefetched_metadata,
                   prefetch_in_progress>>
    /\ TrackEndLine("clear_id", "clear_url")

\* _clear_prefetch_state, line 269
TrackEndClearUrl ==
    /\ prefetched_url' = <<>>
    /\ UNCHANGED <<current_playing_index, prefetched_track_id, prefetched_metadata,
                   prefetch_in_progress>>
    /\ TrackEndLine("clear_url", "clear_metadata")

\* _clear_prefetch_state, lines 270-271
TrackEndClearMetadata ==
    /\ prefetched_metadata' = <<>>
    /\ UNCHANGED <<current_playing_index, prefetched_track_id, prefetched_url,
                   prefetch_in_progress>>
    /\ TrackEndLine("clear_metadata", "clear_progress")

\* _clear_prefetch_state, line 272
TrackEndClearProgress ==
    /\ prefetch_in_progress' = FALSE
    /\ UNCHANGED <<current_playing_index, prefetched_track_id, prefetched_url,
                   prefetched_metadata>>
    /\ TrackEndLine("clear_progress", "post")

\* lines 183-191: post_message(TrackSelected(...))
TrackEndPost ==
    /\ mpv.pc = "post"
    /\ mpv' = IdleThread
    /\ \E m \in {[track_id |-> mpv.track_id, prefetched_url |-> mpv.url,
                   prefetched_metadata |-> mpv.metadata]} :
          /\ inbox' = Append(inbox, m)
          /\ ev' = [NoEv EXCEPT !.name = "end_file", !.posted = <<m>>, !.from = mpv.from]
    /\ UNCHANGED <<ui, shuffleVars, coordVars, prefetched_url, prefetched_metadata,
                   playing_item_id>>
    /\ UNCHANGED <<cacheVars, singletonVars, loadVars>>

\* play_next_track / play_previous_track up to self.tracks[index]
KeyStart(key) ==
    /\ ui.pc = "idle"
    /\ inbox = <<>>
    /\ current_page = "player"
    /\ tracks # <<>>
    /\ \E r \in {IF key = "play_next" THEN NextHere ELSE PreviousHere} :
          /\ shuffle_position' = r.position
          /\ IF r.raised \/ ~InRange(r.index)
             THEN UNCHANGED <<mpv, ui>>
             ELSE /\ ui' = [IdleThread EXCEPT
                              !.pc = "key_set_index",
                              !.next_index = r.index,
                              !.track_id = tracks[r.index + 1].id,
                              !.from = current_playing_index,
                              !.raced = (mpv.pc = "set_index")]
                  /\ mpv' = IF mpv.pc = "set_index" THEN [mpv EXCEPT !.raced = TRUE]
                            ELSE mpv
    /\ ev' = NoEv
    /\ UNCHANGED <<config_shuffle, current_playing_index, shuffled_indices, coordVars,
                   deliveryVars>>
    /\ UNCHANGED <<cacheVars, singletonVars, loadVars>>

\* self.current_playing_index = index; self._playing_item_id = self.current_item_id
KeySetIndex ==
    /\ ui.pc = "key_set_index"
    /\ ui' = At(ui, "key_post")
    /\ current_playing_index' = ui.next_index
    /\ playing_item_id' = current_item_id
    /\ ev' = NoEv
    /\ UNCHANGED <<mpv, config_shuffle, shuffled_indices, shuffle_position, coordVars,
                   prefetched_url, prefetched_metadata, inbox>>
    /\ UNCHANGED <<cacheVars, singletonVars, loadVars>>

\* post_message(TrackSelected(track["id"], track))
KeyPost ==
    /\ ui.pc = "key_post"
    /\ ui' = IdleThread
    /\ \E m \in {[track_id |-> ui.track_id, prefetched_url |-> <<>>,
                   prefetched_metadata |-> <<>>]} :
          /\ inbox' = Append(inbox, m)
          /\ ev' = [NoEv EXCEPT !.name = "key", !.posted = <<m>>, !.from = ui.from]
    /\ UNCHANGED <<mpv, shuffleVars, coordVars, prefetched_url, prefetched_metadata,
                   playing_item_id>>
    /\ UNCHANGED <<cacheVars, singletonVars, loadVars>>

\* _prefetch_next_track up to the return of get_track_url
PrefetchStart(outcome) ==
    /\ ui.pc = "idle"
    /\ prefetches > 0
    /\ prefetches' = prefetches - 1
    /\ \E r \in {NextHere} :
          /\ shuffle_position' = r.position
          /\ ui' = IF ~r.raised /\ InRange(r.index) /\ outcome = "url"
                   THEN [IdleThread EXCEPT !.pc = "store_id",
                                           !.next_index = r.index,
                                           !.track_id = tracks[r.index + 1].id,
                                           !.url = tracks[r.index + 1].id,
                                           !.metadata = <<"high">>]
                   ELSE At(IdleThread, "finish")
    /\ ev' = NoEv
    /\ UNCHANGED <<mpv, config_shuffle, current_playing_index, shuffled_indices,
                   config_auto_play, current_page, prefetched_track_id,
                   prefetch_in_progress, deliveryVars>>
    /\ UNCHANGED <<cacheVars, singletonVars, loadVars>>

\* a statement of the worker that changes only the fields of the conjunct before it
PrefetchLine(from_line, to_line) ==
    /\ ui.pc = from_line
    /\ ui' = IF to_line = "idle" THEN IdleThread ELSE At(ui, to_line)
    /\ ev' = NoEv
    /\ UNCHANGED <<mpv, shuffleVars, config_auto_play, current_page, prefetches,
                   inbox, playing_item_id>>
    /\ UNCHANGED <<cacheVars, singletonVars, loadVars>>

\* line 252: self._prefetched_track_id = next_track["id"]
PrefetchStoreId ==
    /\ prefetched_track_id' = ui.track_id
    /\ UNCHANGED <<prefetched_url, prefetched_metadata, prefetch_in_progress>>
    /\ PrefetchLine("store_id", "store_url")

\* line 253: self._prefetched_url = track_url
PrefetchStoreUrl ==
    /\ prefetched_url' = ui.url
    /\ UNCHANGED <<prefetched_track_id, prefetched_metadata, prefetch_in_progress>>
    /\ PrefetchLine("store_url", "store_metadata")

\* lines 254-255: self._prefetched_metadata = stream_metadata, and the error info
PrefetchStoreMetadata ==
    /\ prefetched_metadata' = ui.metadata
    /\ UNCHANGED <<prefetched_track_id, prefetched_url, prefetch_in_progress>>
    /\ PrefetchLine("store_metadata", "finish")

\* line 262, finally: self._prefetch_in_progress = False
PrefetchFinally ==
    /\ prefetch_in_progress' = FALSE
    /\ UNCHANGED <<prefetched_track_id, prefetched_url, prefetched_metadata>>
    /\ PrefetchLine("finish", "idle")

\* auto-play is on and shuffle off in the saved configuration
ThreadsInit == PlayInit /\ config_auto_play /\ ~config_shuffle

\* the user opens a track list and selects a track while both threads are in
\* no handler; then the player's events and the keys race
ThreadsStep ==
    \/ \E i \in 1..Len(albums) :
          /\ inbox = <<>> /\ loads = <<>> /\ mpv.pc = "idle" /\ ui.pc = "idle"
          /\ prefetches = 0
          /\ LoadTracks(albums[i])
    \/ \E i \in DOMAIN loads : LoadWorkerGet(i)
    \/ \E i \in DOMAIN loads : LoadWorkerFetched(i, "ok")
    \/ \E index \in 0..(Len(tracks) - 1) :
          /\ mpv.pc = "idle" /\ ui.pc = "idle" /\ loads = <<>>
          /\ OnListViewSelected(index)
    \/ \E duration \in Durations, time_pos \in Positions :
          /\ inbox = <<>> /\ loads = <<>> /\ mpv.pc = "idle"
          /\ InPrefetchWindow(duration, time_pos)
          /\ OnTimePosChange(duration, time_pos)
    \/ loads = <<>> /\ TrackEndStart
    \/ TrackEndSetIndex
    \/ TrackEndCheck
    \/ TrackEndReadUrl
    \/ TrackEndReadMetadata
    \/ TrackEndClearId
    \/ TrackEndClearUrl
    \/ TrackEndClearMetadata
    \/ TrackEndClearProgress
    \/ TrackEndPost
    \/ \E key \in {"play_next", "play_previous"} : loads = <<>> /\ KeyStart(key)
    \/ KeySetIndex
    \/ KeyPost
    \/ \E outcome \in UrlOutcomes : PrefetchStart(outcome)
    \/ PrefetchStoreId
    \/ PrefetchStoreUrl
    \/ PrefetchStoreMetadata
    \/ PrefetchFinally
    \/ \E env \in Services :
          mpv.pc = "idle" /\ ui.pc = "idle" /\ OnTracksListTrackSelected(env)

SpecThreads == ThreadsInit /\ [][ThreadsStep]_vars

(***************************************************************************)
(* The resolution and playback functions applied to every input.           *)
(***************************************************************************)
\* a call of TidalClient.get_track_url; the calls are independent of each
\* other, so one call is observed from the initial state
ResolveCall(quality, env) ==
    /\ ev = NoEv
    /\ ev' = [NoEv EXCEPT !.name = "get_track_url",
                          !.playback = [NoPlayback EXCEPT
                             !.track_id = <<"A", 1>>, !.quality = quality, !.env = env,
                             !.url = GetTrackUrl(<<"A", 1>>, quality, env)]]
    /\ UNCHANGED <<cacheVars, singletonVars, loadVars, shuffleVars, coordVars, deliveryVars, threadVars>>

\* the values a caller passes for a pre-fetched url or metadata: None, or
\* the url / metadata of some track
PrefetchedUrls == {<<>>, <<"A", 1>>, <<"A", 2>>}

PrefetchedMetadata == {<<>>, <<"low">>}

\* a call of PlaybackService.play_track
PlayTrackCall(quality, with_url, with_metadata, env) ==
    /\ ev = NoEv
    /\ ev' = [NoEv EXCEPT !.name = "play_track",
                          !.playback = [NoPlayback EXCEPT
                             !.track_id = <<"A", 1>>, !.quality = quality, !.env = env,
                             !.prefetched_url = with_url,
                             !.prefetched_metadata = with_metadata,
                             !.url = GetTrackUrl(<<"A", 1>>, quality, env),
                             !.result = PlayTrack(<<"A", 1>>, quality, with_url,
                                                  with_metadata,
                                                  PrefetchedErrorInfo(with_metadata),
                                                  env)]]
    /\ UNCHANGED <<cacheVars, singletonVars, loadVars, shuffleVars, coordVars, deliveryVars, threadVars>>

PlaybackNext ==
    \/ \E quality \in Qualities, env \in Envs : ResolveCall(quality, env)
    \/ \E quality \in Qualities, with_url \in PrefetchedUrls,
          with_metadata \in PrefetchedMetadata, env \in Envs :
            PlayTrackCall(quality, with_url, with_metadata, env)

SpecPlayback == Init /\ [][PlaybackNext]_vars

(***************************************************************************)
(* Construction of the singleton by racing threads: TracksCache() runs     *)
(* __new__ and then __init__ on what __new__ returned.                     *)
(***************************************************************************)
Goto(t, l) == pc' = [pc EXCEPT ![t] = l]

\* line 35: if cls._instance is None (outside the lock)
New35(t) ==
    /\ pc[t] = "new35"
    /\ Goto(t, IF instance = "None" THEN "new36" ELSE "new40")
    /\ UNCHANGED <<lock, instance, attrs, initialized, created, inits, stored, cacheVars, loadVars, playVars>>

\* line 36: with cls._lock
New36(t) ==
    /\ pc[t] = "new36"
    /\ lock = 0
    /\ lock' = t
    /\ Goto(t, "new37")
    /\ UNCHANGED <<instance, attrs, initialized, created, inits, stored, cacheVars, loadVars, playVars>>

\* line 37: if cls._instance is None (under the lock)
New37(t) ==
    /\ pc[t] = "new37"
    /\ Goto(t, IF instance = "None" THEN "new38" ELSE "unlock")
    /\ UNCHANGED <<lock, instance, attrs, initialized, created, inits, stored, cacheVars, loadVars, playVars>>

\* line 38: cls._instance = super().__new__(cls)
New38(t) ==
    /\ pc[t] = "new38"
    /\ instance' = "obj"
    /\ attrs' = {}
    /\ created' = created + 1
    /\ Goto(t, "new39")
    /\ UNCHANGED <<lock, initialized, inits, stored, cacheVars, loadVars, playVars>>

\* line 39: cls._instance._initialized = False
New39(t) ==
    /\ pc[t] = "new39"
    /\ initialized' = FALSE
    /\ attrs' = attrs \cup {"_initialized"}
    /\ Goto(t, "unlock")
    /\ UNCHANGED <<lock, instance, created, inits, stored, cacheVars, loadVars, playVars>>

\* leaving the with block
Unlock(t) ==
    /\ pc[t] = "unlock"
    /\ lock' = 0
    /\ Goto(t, "new40")
    /\ UNCHANGED <<instance, attrs, initialized, created, inits, stored, cacheVars, loadVars, playVars>>

\* line 40: return cls._instance; __init__ is entered
New40(t) ==
    /\ pc[t] = "new40"
    /\ Goto(t, "init43")
    /\ UNCHANGED <<lock, instance, attrs, initialized, created, inits, stored, cacheVars, loadVars, playVars>>

\* line 43: if self._initialized: return (AttributeError while the attribute is missing)
Init43(t) ==
    /\ pc[t] = "init43"
    /\ Goto(t, IF "_initialized" \notin attrs THEN "error"
                ELSE IF initialized THEN "done" ELSE "init45")
    /\ UNCHANGED <<lock, instance, attrs, initialized, created, inits, stored, cacheVars, loadVars, playVars>>

\* line 45: self._cache = OrderedDict()
Init45(t) ==
    /\ pc[t] = "init45"
    /\ cache' = <<>>
    /\ attrs' = attrs \cup {"_cache"}
    /\ inits' = inits + 1
    /\ Goto(t, "init46")
    /\ UNCHANGED <<lock, instance, initialized, created, stored>>
    /\ UNCHANGED <<timestamps, now, call, recency, insertedAt, lastSet, loadVars, playVars>>

\* line 46: self._timestamps = {}
Init46(t) ==
    /\ pc[t] = "init46"
    /\ timestamps' = EmptyDict
    /\ attrs' = attrs \cup {"_timestamps"}
    /\ Goto(t, "init47")
    /\ UNCHANGED <<lock, instance, initialized, created, inits, stored>>
    /\ UNCHANGED <<cache, now, call, recency, insertedAt, lastSet, loadVars, playVars>>

\* lines 47-48: self.max_tracks = ...; self.ttl = ...
Init47(t) ==
    /\ pc[t] = "init47"
    /\ attrs' = attrs \cup {"max_tracks", "ttl"}
    /\ Goto(t, "init49")
    /\ UNCHANGED <<lock, instance, initialized, created, inits, stored, cacheVars, loadVars, playVars>>

\* line 49: self._initialized = True
Init49(t) ==
    /\ pc[t] = "init49"
    /\ initialized' = TRUE
    /\ Goto(t, "done")
    /\ UNCHANGED <<lock, instance, attrs, created, inits, stored, cacheVars, loadVars, playVars>>

\* a thread whose TracksCache() returned stores a one-track list through its reference
Use(t, id) ==
    /\ pc[t] = "done"
    /\ {"_cache", "_timestamps", "max_tracks", "ttl"} \subseteq attrs
    /\ \E r \in {CacheSet(CacheState, now, id, TrackList(id, 1))} :
          /\ cache' = r.cache
          /\ timestamps' = r.ts
          /\ stored' = (stored \cup {id}) \cap Keys(r.cache)
    /\ UNCHANGED <<pc, lock, instance, attrs, initialized, created, inits>>
    /\ UNCHANGED <<now, call, recency, insertedAt, lastSet, loadVars, playVars>>

SingletonInit ==
    /\ pc = [t \in Threads |-> "new35"]
    /\ lock = 0
    /\ instance = "None"
    /\ attrs = {}
    /\ initialized = FALSE
    /\ created = 0
    /\ inits = 0
    /\ stored = {}
    /\ CacheInit
    /\ LoadIdle
    /\ PlayIdle

SingletonNext ==
    \E t \in Threads :
        \/ New35(t) \/ New36(t) \/ New37(t) \/ New38(t) \/ New39(t)
        \/ Unlock(t) \/ New40(t)
        \/ Init43(t) \/ Init45(t) \/ Init46(t) \/ Init47(t) \/ Init49(t)
        \/ \E id \in Ids : Use(t, id)

SpecSingleton == SingletonInit /\ [][SingletonNext]_vars

(***************************************************************************)
(* Properties of the cache.                                                *)
(***************************************************************************)
Before(seq, a, b) ==
    \E i, j \in DOMAIN seq : i < j /\ seq[i] = a /\ seq[j] = b

RECURSIVE SumOver(_, _)
SumOver(f, S) ==
    IF S = {} THEN 0
    ELSE LET k == CHOOSE x \in S : TRUE IN Len(f[k]) + SumOver(f, S \ {k})

\* C1: after each set returns, the sum of the lengths of all cached track
\* lists is at most max_tracks.
CacheBound ==
    call.name = "set" =>
        SumOver([k \in Ids |-> IF k \in Keys(cache) THEN Lookup(cache, k) ELSE <<>>], Ids)
            <= MAX_TRACKS

\* C2: whenever set evicts, every entry it evicts was set or got less recently
\* than every other entry that survives the call.
LRUEvictionOrder ==
    [][call'.name = "set" =>
         \A e \in call'.evicted : \A s \in Keys(cache') \ {call'.id} :
             Before(recency, e, s)]_vars

LRUEvictionWitness ==
    /\ call.name = "set"
    /\ call.evicted # {}
    /\ Keys(cache) \ {call.id} # {}

\* the records get_all_tracks returned for collection id
InAll(id) == \E i \in DOMAIN call.out : call.out[i].cache_album_id = id

\* C3 (as stated): an entry inserted at T that was not evicted, invalidated or
\* re-set is returned by get and get_all_tracks at every time < T + ttl and
\* absent at every time >= T + ttl.
TTLExpiryAtBoundary ==
    /\ call.name = "get" /\ insertedAt[call.id] # NoTime =>
          (call.hit <=> now < insertedAt[call.id] + TTL)
    /\ call.name = "get_all_tracks" =>
          \A id \in Ids : insertedAt[id] # NoTime =>
              (id \in Keys(cache) <=> now < insertedAt[id] + TTL)

\* C3 (amended): such an entry is returned by get and included in
\* get_all_tracks at every time <= T + ttl and absent at every time > T + ttl.
TTLExpiry ==
    /\ call.name = "get" /\ insertedAt[call.id] # NoTime =>
          /\ call.hit <=> now <= insertedAt[call.id] + TTL
          /\ call.hit => call.out = lastSet[call.id]
    /\ call.name = "get_all_tracks" =>
          \A id \in Ids : insertedAt[id] # NoTime =>
              IF now <= insertedAt[id] + TTL
              THEN id \in Keys(cache) /\ (lastSet[id] # <<>> => InAll(id))
              ELSE id \notin Keys(cache) /\ ~InAll(id)

TTLExpiryWitness ==
    /\ call.name = "get_all_tracks"
    /\ \E id \in Ids : /\ insertedAt[id] # NoTime
                        /\ now = insertedAt[id] + TTL
                        /\ InAll(id)
    /\ \E id \in Ids : /\ insertedAt[id] # NoTime
                        /\ now > insertedAt[id] + TTL

\* C4: every cached id holds exactly the list passed to its most recent set,
\* and get_stats counts every surviving collection whole.
NoPartialEviction ==
    /\ \A id \in Keys(cache) : Lookup(cache, id) = lastSet[id]
    /\ call.name = "get_stats" =>
          /\ call.tracks_count = SumOver(lastSet, Ids)
          /\ call.albums_count = Cardinality(Keys(cache))

NoPartialEvictionWitness ==
    /\ call.name = "get_stats"
    /\ call.albums_count >= 2
    /\ call.tracks_count >= 2
    /\ \E id \in Ids : insertedAt[id] # NoTime /\ id \notin Keys(cache)

\* C5: however the threads interleave, one object is built, its state is
\* initialised once, no constructor call fails, and an entry stored through a
\* finished reference is not wiped by a thread still constructing.
SingletonRaceFree ==
    /\ created <= 1
    /\ inits <= 1
    /\ \A t \in Threads : pc[t] # "error"
    /\ stored \subseteq Keys(cache)

\* the collections some worker is awaiting the service for
FetchingLoads == {loads[i].id : i \in {j \in DOMAIN loads : loads[j].stage = "fetch"}}

FetchingSweeps ==
    {albums[sweeps[k].pos] : k \in {j \in DOMAIN sweeps : sweeps[j].stage = "fetch"}}

\* C6: in every state reached by interleaving the preload sweep with
\* foreground loads, the cache has at most one entry per collection id, each
\* entry is the whole list of the set that stored it, every entry has its
\* timestamp, and the total track count is the sum over the cached ids; the
\* count reported by get_stats is that sum.
LoadsKeepCacheSound ==
    /\ \A i, j \in DOMAIN cache : cache[i].id = cache[j].id => i = j
    /\ DictKeys(timestamps) = Keys(cache)
    /\ \A i \in DOMAIN cache :
          /\ cache[i].tracks = lastSet[cache[i].id]
          /\ cache[i].tracks \in {TrackList(cache[i].id, api[cache[i].id]), <<>>}
    /\ GetTotalTracks(cache) =
          SumOver([k \in Ids |-> IF k \in Keys(cache) THEN Lookup(cache, k) ELSE <<>>], Ids)
    /\ call.name = "get_stats" =>
          /\ call.albums_count = Cardinality(Keys(cache))
          /\ call.tracks_count = SumOver(lastSet, Keys(cache))

\* a set stored a collection while a foreground load and a sweep were both
\* fetching it, and the other of the two is still suspended in its fetch
LoadsKeepCacheSoundWitness ==
    /\ call.name = "set"
    /\ call.id \in Keys(cache)
    /\ call.arg # <<>>
    /\ Len(loads) + Len(sweeps) = 2
    /\ \/ call.id \in FetchingLoads /\ Len(sweeps) = 1
       \/ call.id \in FetchingSweeps /\ Len(loads) = 1

\* C7: an end-file event whose reason is not EOF, or that arrives while
\* auto-play is disabled, changes no playing index, clears no pre-fetch state
\* and posts no play request; so an index change or a play request made by
\* an end-file event implies reason EOF with auto-play enabled.
AutoAdvanceGating ==
    [][\A reason \in Reasons :
         ((reason # "EOF" \/ ~config_auto_play) /\ EndFile(reason)) =>
            /\ current_playing_index' = current_playing_index
            /\ shuffle_position' = shuffle_position
            /\ prefetched_track_id' = prefetched_track_id
            /\ prefetch_in_progress' = prefetch_in_progress
            /\ prefetched_url' = prefetched_url
            /\ prefetched_metadata' = prefetched_metadata
            /\ inbox' = inbox
            /\ ev'.posted = <<>>]_vars

\* an end-file event found a playing index, a next track in range and a
\* pre-fetched url with auto-play on, and left them all alone: its reason
\* was not EOF
AutoAdvanceGatingWitness ==
    /\ ev.name = "end_file"
    /\ ev.posted = <<>>
    /\ config_auto_play
    /\ ~config_shuffle
    /\ current_playing_index # NoIndex
    /\ tracks # <<>>
    /\ prefetched_track_id # NoTrack

\* C8: with shuffle off, on a loaded list of N >= 1 tracks and a playing
\* index c in [0, N), the next key moves to (c + 1) mod N and the previous
\* key to (c - 1) mod N, and the play request is for the track at that index.
SequentialWraps ==
    [][(/\ ~config_shuffle
        /\ Len(tracks) >= 1
        /\ current_playing_index \in 0..(Len(tracks) - 1)
        /\ current_page = "player"
        /\ ev'.name \in {"play_next", "play_previous"}) =>
           /\ ev'.name = "play_next" =>
                 current_playing_index' = (current_playing_index + 1) % Len(tracks)
           /\ ev'.name = "play_previous" =>
                 current_playing_index' = (current_playing_index - 1) % Len(tracks)
           /\ ev'.posted = <<[track_id |-> tracks[current_playing_index' + 1].id,
                              prefetched_url |-> <<>>,
                              prefetched_metadata |-> <<>>]>>
           /\ inbox' = Append(inbox, ev'.posted[1])]_vars

\* the next key wrapped from the last track of a three-track list to the first
SequentialWrapsWitness ==
    /\ ev.name = "play_next"
    /\ ~config_shuffle
    /\ Len(tracks) = 3
    /\ ev.from = 2
    /\ current_playing_index = 0

IsPermutation(indices, n) ==
    /\ Len(indices) = n
    /\ \A k \in 0..(n - 1) : \E i \in DOMAIN indices : indices[i] = k
    /\ \A i, j \in DOMAIN indices : indices[i] = indices[j] => i = j

\* C9: whenever shuffle is enabled in the configuration and a track list of
\* N tracks is loaded (no load is in flight), shuffled_indices is a
\* permutation of [0, N).
ShuffleIsBijection ==
    (config_shuffle /\ loads = <<>>) => IsPermutation(shuffled_indices, Len(tracks))

\* C10: a shuffle key that enables shuffle while the track at index k of the
\* loaded list is playing leaves a permutation of [0, N) whose position 0 is
\* k and shuffle_position 0.
ShuffleContinuity ==
    [][(/\ ev'.name = "toggle_shuffle"
        /\ ~config_shuffle
        /\ config_shuffle'
        /\ loads = <<>>
        /\ current_playing_index \in 0..(Len(tracks) - 1)) =>
           /\ IsPermutation(shuffled_indices', Len(tracks))
           /\ shuffled_indices'[1] = current_playing_index
           /\ shuffle_position' = 0]_vars

\* C19: a get of an id that has no entry returns None and creates no entry
\* (it only purges expired ones), and an invalidate of an id that has no
\* entry leaves every entry, their order and every timestamp unchanged;
\* neither call has a raising path.
AbsentIdsAreNoOps ==
    [][/\ (call'.name = "get" /\ call'.id \notin Keys(cache)) =>
            /\ ~call'.hit
            /\ call'.out = <<>>
            /\ call'.id \notin Keys(cache')
            /\ cache' = SelectSeq(cache, LAMBDA e : ~IsExpired(now, timestamps[e.id]))
       /\ (call'.name = "invalidate" /\ call'.id \notin Keys(cache)) =>
            /\ cache' = cache
            /\ timestamps' = timestamps]_vars

\* a get missed while other collections were cached, and left no entry behind
AbsentIdsAreNoOpsWitness ==
    /\ call.name = "get"
    /\ ~call.hit
    /\ call.id \notin Keys(cache)
    /\ Len(cache) >= 1

\* C20: get_all_tracks returns one record for each track of each unexpired
\* entry, in cache order, each tagged with the id of its collection; its
\* length is the total cached track count; the cached records stay untagged
\* and the unexpired entries keep their order.
GetAllTracksFlattens ==
    [][call'.name = "get_all_tracks" =>
         /\ Len(call'.out) = GetTotalTracks(cache')
         /\ \A i \in DOMAIN cache' : \A j \in DOMAIN cache'[i].tracks :
               /\ DOMAIN cache'[i].tracks[j] = {"id"}
               /\ Cardinality({k \in DOMAIN call'.out :
                      /\ call'.out[k].id = cache'[i].tracks[j].id
                      /\ call'.out[k].cache_album_id = cache'[i].id}) = 1
         /\ \A k \in DOMAIN call'.out :
               /\ call'.out[k].cache_album_id \in Keys(cache')
               /\ \E j \in DOMAIN Lookup(cache', call'.out[k].cache_album_id) :
                     Lookup(cache', call'.out[k].cache_album_id)[j].id = call'.out[k].id
         /\ cache' = SelectSeq(cache, LAMBDA e : ~IsExpired(now, timestamps[e.id]))]_vars

\* get_all_tracks flattened two cached collections
GetAllTracksFlattensWitness ==
    /\ call.name = "get_all_tracks"
    /\ Len(cache) >= 2
    /\ Len(call.out) >= 2
    /\ \E k, l \in DOMAIN call.out : call.out[k].cache_album_id # call.out[l].cache_album_id

\* the documented ladder of a requested quality
Ladder(quality) ==
    IF quality = "max" THEN <<"max", "high", "low">>
    ELSE IF quality = "high" THEN <<"high", "low">>
    ELSE <<"low">>

\* a successful resolution stopped at the first tier with a stream:
\* tried_qualities is the ladder prefix ending at actual_quality, and
\* fallback_applied tells whether that is not the requested quality
SuccessFollowsLadder(c) ==
    \E n \in 1..Len(Ladder(c.quality)) :
       /\ c.url.error_info.tried_qualities = SubSeq(Ladder(c.quality), 1, n)
       /\ c.url.error_info.actual_quality = Ladder(c.quality)[n]
       /\ c.env.tiers[Ladder(c.quality)[n]] = "stream"
       /\ \A m \in 1..(n - 1) : c.env.tiers[Ladder(c.quality)[m]] # "stream"
       /\ c.url.error_info.fallback_applied = (Ladder(c.quality)[n] # c.quality)
       /\ c.url.stream_metadata # <<>>

\* C13 as stated: every failure is reported only after the whole ladder was tried.
QualityLadderAlwaysTried ==
    ev.name = "get_track_url" =>
       IF ev.playback.url.track_url # <<>>
       THEN SuccessFollowsLadder(ev.playback)
       ELSE ev.playback.url.error_info.tried_qualities = Ladder(ev.playback.quality)

\* C13: a success follows the ladder; a failure is reported after every
\* tier of the ladder was tried, whatever each tier raised, unless the
\* client is not logged in or the track itself cannot be fetched: then the
\* failure is reported with no tier tried.
QualityLadder ==
    ev.name = "get_track_url" =>
       IF ev.playback.url.track_url # <<>>
       THEN SuccessFollowsLadder(ev.playback)
       ELSE /\ ev.playback.url.error_info.error # "None"
            /\ ev.playback.url.error_info.actual_quality = "None"
            /\ IF ev.playback.env.logged_in /\ ev.playback.env.track_ok
               THEN /\ ev.playback.url.error_info.tried_qualities = Ladder(ev.playback.quality)
                    /\ \A q \in Qualities :
                          (\E m \in DOMAIN Ladder(ev.playback.quality) :
                              Ladder(ev.playback.quality)[m] = q)
                          => ev.playback.env.tiers[q] # "stream"
               ELSE ev.playback.url.error_info.tried_qualities = <<>>

\* max was requested, max raised, high had no stream, low gave the stream
QualityLadderWitness ==
    /\ ev.name = "get_track_url"
    /\ ev.playback.quality = "max"
    /\ ev.playback.env.tiers["max"] = "error"
    /\ ev.playback.env.tiers["high"] = "no_stream"
    /\ ev.playback.url.error_info.actual_quality = "low"
    /\ ev.playback.url.error_info.tried_qualities = <<"max", "high", "low">>
    /\ ev.playback.url.error_info.fallback_applied

\* C14: play_track hands exactly one url to player.play if and only if it
\* returns success; when no url was resolved it returns success = False with
\* the error message and the tried qualities, after a single get_track_url
\* call and without calling play.
PlaybackResultAndEffect ==
    ev.name = "play_track" =>
       /\ ev.playback.result.success <=> Len(ev.playback.result.played) = 1
       /\ Len(ev.playback.result.played) <= 1
       /\ ev.playback.result.resolved <= 1
       /\ (ev.playback.result.resolved = 1 /\ ev.playback.url.track_url = <<>>) =>
             /\ ~ev.playback.result.success
             /\ ev.playback.result.played = <<>>
             /\ ev.playback.result.error_message = ev.playback.url.error_info.error
             /\ ev.playback.result.error_message # "None"
             /\ ev.playback.result.tried_qualities = ev.playback.url.error_info.tried_qualities
       /\ (ev.playback.result.resolved = 1 /\ ev.playback.url.track_url # <<>>) =>
             /\ ev.playback.result.success
             /\ ev.playback.result.played =
                   <<[url |-> ev.playback.url.track_url, track_id |-> ev.playback.track_id]>>

\* a resolution went through the whole ladder without a stream and play_track
\* returned the failure
PlaybackResultAndEffectWitness ==
    /\ ev.name = "play_track"
    /\ ~ev.playback.result.success
    /\ ev.playback.result.resolved = 1
    /\ ev.playback.result.tried_qualities = <<"max", "high", "low">>
    /\ ev.playback.result.played = <<>>

AfterInShuffle(index) ==
    shuffled_indices[((CHOOSE p \in DOMAIN shuffled_indices :
                          shuffled_indices[p] = index) % Len(shuffled_indices)) + 1]

\* C15: with auto-play on and a loaded list of N tracks, N natural EOF events
\* in a row with no user action between them, starting from a playing index
\* i of the list, each post a play request, visit every index once (in
\* ascending order with wrap-around when shuffle is off, in the order of
\* shuffled_indices when it is on) and end on i.
FullCycle ==
    (/\ ev.run # <<>>
     /\ ev.run[1] \in 0..(Len(tracks) - 1)) =>
        /\ \A k \in 2..Len(ev.run) :
              /\ ev.run[k] # NoIndex
              /\ ~config_shuffle => ev.run[k] = (ev.run[k - 1] + 1) % Len(tracks)
              /\ (config_shuffle /\ shuffled_indices # <<>>) =>
                    /\ \E p \in DOMAIN shuffled_indices : shuffled_indices[p] = ev.run[k - 1]
                    /\ ev.run[k] = AfterInShuffle(ev.run[k - 1])
        /\ Len(ev.run) = Len(tracks) + 1 =>
              /\ ev.run[Len(ev.run)] = ev.run[1]
              /\ \A i \in 0..(Len(tracks) - 1) :
                    \E k \in 2..Len(ev.run) :
                       /\ ev.run[k] = i
                       /\ \A j \in 2..Len(ev.run) : ev.run[j] = i => j = k

\* C18: every handler that moves the playing index and posts a play request,
\* a key or a selection of the user as well as an auto-advance, leaves
\* _playing_item_id equal to the id of the collection whose track list the
\* new index refers to.
PlayingMarkerFollows ==
    [][ev'.posted # <<>> =>
          /\ ev'.posted[1].track_id = tracks[current_playing_index' + 1].id
          /\ playing_item_id' = current_item_id]_vars

\* C17: once no load is in flight, the track list of the view holds no track
\* of a collection other than the one opened last: a load that was
\* superseded by the load of another collection left nothing in the list.
SupersededLoadIgnored ==
    (loads = <<>> /\ current_item_id # "None") =>
       \A k \in DOMAIN tracks : tracks[k].id[1] = current_item_id

\* C12: every url that the player page hands to the player was resolved for
\* the track of the play request, and so is every pre-fetched url that a play
\* request carries.
PrefetchNeverMisapplied ==
    /\ \A k \in DOMAIN inbox :
          inbox[k].prefetched_url # <<>> => inbox[k].prefetched_url = inbox[k].track_id
    /\ ev.name = "track_selected" =>
          \A k \in DOMAIN ev.playback.result.played :
             ev.playback.result.played[k].url = ev.playback.result.played[k].track_id

\* C16: when an end-file handler and a next / previous key both started for
\* the track at index from, before either had moved the index, then once both
\* have returned one play request was posted and the playing index is one
\* step from from.
OneAdvancePerTransition ==
    [][(\/ mpv.pc = "post" /\ mpv.raced /\ mpv'.pc = "idle" /\ ui.pc = "idle"
        \/ ui.pc = "key_post" /\ ui.raced /\ ui'.pc = "idle" /\ mpv.pc = "idle") =>
          /\ Len(inbox') = 1
          /\ current_playing_index' \in {(ev'.from + 1) % Len(tracks),
                                         (ev'.from - 1) % Len(tracks)}]_vars

\* C21: an auto-advance posts the play request for a track of the collection
\* the ended track was played from (the collection recorded when the user
\* started it), also when the view has loaded another collection since.
AdvanceFollowsPlayingCollection ==
    [][(ev'.name = "end_file" /\ ev'.posted # <<>> /\ playing_item_id # "None") =>
          ev'.posted[1].track_id[1] = playing_item_id]_vars

\* what C22 asks of the state and of the event, but for the duration
TriggerGuard(duration, time_pos) ==
    /\ config_auto_play
    /\ current_playing_index # NoIndex
    /\ tracks # <<>>
    /\ ~prefetch_in_progress
    /\ prefetched_track_id = NoTrack
    /\ duration - time_pos > 0
    /\ duration - time_pos <= PREFETCH_SECONDS_BEFORE_END

\* C22 as stated: a time-position event starts a pre-fetch only if the
\* duration exceeds 20 seconds.
PrefetchTriggerGuardStrict ==
    [][prefetches' = prefetches + 1 =>
       \A duration \in Durations, time_pos \in Positions :
         OnTimePosChange(duration, time_pos) =>
            /\ TriggerGuard(duration, time_pos)
            /\ duration > PREFETCH_SECONDS_BEFORE_END + 5]_vars

\* C22: a time-position event starts a pre-fetch only when auto-play is
\* enabled, a track is playing from a non-empty list, no pre-fetch is in
\* flight or stored, the duration is at least 20 seconds and the remaining
\* time is in (0, 15]; it then sets the in-progress flag.
PrefetchTriggerGuard ==
    [][prefetches' = prefetches + 1 =>
       \A duration \in Durations, time_pos \in Positions :
         OnTimePosChange(duration, time_pos) =>
            /\ TriggerGuard(duration, time_pos)
            /\ duration >= PREFETCH_SECONDS_BEFORE_END + 5
            /\ prefetch_in_progress']_vars

\* a pre-fetch was started for a playing track and has not run yet
PrefetchTriggerGuardWitness ==
    /\ prefetches = 1
    /\ prefetch_in_progress
    /\ prefetched_track_id = NoTrack
    /\ config_auto_play
    /\ current_playing_index # NoIndex
    /\ tracks # <<>>

\* C23: while a track plays, the time-position events start at most one
\* pre-fetch resolution for it, whatever that resolution gives.
PrefetchOncePerTrack ==
    [][prefetches' = prefetches + 1 => ~ev.fetched]_vars

PrefetchClearedOnAdvance ==
    [][(/\ ev'.posted # <<>>
        /\ current_playing_index' # current_playing_index
        /\ prefetches' = 0) =>
          /\ prefetched_track_id' = NoTrack
          /\ prefetched_url' = <<>>
          /\ prefetched_metadata' = <<>>]_vars

\* the index the shuffle order gives before index
BeforeInShuffle(index) ==
    shuffled_indices[(((CHOOSE p \in DOMAIN shuffled_indices :
                           shuffled_indices[p] = index) - 2) % Len(shuffled_indices)) + 1]

\* the playing index is an element of the shuffle order
PlayingInShuffle ==
    /\ config_shuffle
    /\ current_playing_index # NoIndex
    /\ \E p \in DOMAIN shuffled_indices : shuffled_indices[p] = current_playing_index

\* C26: in shuffle mode with the playing index in the shuffle order, next
\* returns the element after it and previous the element before it
\* (circularly), whatever shuffle_position holds, and next computed again from
\* the position the first call left returns the same index.
ShufflePositionLocated ==
    PlayingInShuffle =>
       \A position \in 0..(Len(shuffled_indices) - 1) :
          LET next == GetNextTrackIndex(config_shuffle, shuffled_indices, position,
                                        current_playing_index, Len(tracks))
              again == GetNextTrackIndex(config_shuffle, shuffled_indices, next.position,
                                         current_playing_index, Len(tracks))
              previous == GetPreviousTrackIndex(config_shuffle, shuffled_indices, position,
                                                current_playing_index, Len(tracks))
          IN /\ next.index = AfterInShuffle(current_playing_index)
             /\ again.index = next.index
             /\ previous.index = BeforeInShuffle(current_playing_index)

\* a next key moved along a shuffle order of three from a playing index that
\* shuffle_position did not point at any more
ShufflePositionLocatedWitness ==
    /\ PlayingInShuffle
    /\ Len(shuffled_indices) = 3
    /\ ev.name = "play_next"
    /\ ev.from # NoIndex
    /\ \E p \in DOMAIN shuffled_indices : shuffled_indices[p] = ev.from
    /\ current_playing_index = AfterInShuffle(ev.from)
    /\ shuffled_indices[shuffle_position + 1] = current_playing_index

\* C27: the timestamp of a cached id is the time of its most recent set, which
\* a successful get leaves alone; after a get, set, get_all_tracks or get_stats
\* made more than ttl after the last set of an id, that id is not cached any
\* more (unless the call is a set of it), however often it was read; a set
\* gives its id the current time.
TTLCountedFromLastSet ==
    /\ \A id \in Keys(cache) : timestamps[id] = insertedAt[id]
    /\ call.name \in {"get", "set", "get_all_tracks", "get_stats"} =>
          \A id \in Ids :
             (/\ insertedAt[id] # NoTime
              /\ now > insertedAt[id] + TTL
              /\ ~(call.name = "set" /\ call.id = id)) => id \notin Keys(cache)
    /\ call.name = "get" /\ call.hit => now <= timestamps[call.id] + TTL
    /\ call.name = "set" => timestamps[call.id] = now /\ call.id \in Keys(cache)

\* a get at the last moment of an entry's life returned it, made it the
\* most recently used one and left its timestamp at the time of the set
TTLCountedFromLastSetWitness ==
    /\ call.name = "get"
    /\ call.hit
    /\ Len(cache) >= 2
    /\ cache[Len(cache)].id = call.id
    /\ timestamps[call.id] = now - TTL
    /\ \E id \in Keys(cache) : timestamps[id] > timestamps[call.id]

\* the entries of c other than the one of id, in their order
Others(c, id) == SelectSeq(c, LAMBDA e : e.id # id)

\* C28: a set of an id the cache already holds leaves one entry for it, the
\* last of the order, with the new list; the total is the new list plus the
\* other entries that remain; and when the new list fits beside the other
\* unexpired entries, none of them is evicted.
ReSetReplaces ==
    [][(call'.name = "set" /\ call'.id \in Keys(cache)) =>
         /\ Cardinality({i \in DOMAIN cache' : cache'[i].id = call'.id}) = 1
         /\ cache'[Len(cache')] = [id |-> call'.id, tracks |-> call'.arg]
         /\ GetTotalTracks(cache') =
               Len(call'.arg) + GetTotalTracks(Others(cache', call'.id))
         /\ \E live \in {Others(ExpireOldEntries(CacheState, now).cache, call'.id)} :
               GetTotalTracks(live) + Len(call'.arg) <= MAX_TRACKS =>
                  /\ call'.evicted = {}
                  /\ Others(cache', call'.id) = live]_vars

\* a re-set filled the cache to its bound beside another entry: with the old
\* list counted the other entry would not have fitted
ReSetReplacesWitness ==
    /\ call.name = "set"
    /\ call.held
    /\ call.evicted = {}
    /\ Len(cache) = 2
    /\ cache[1].id # call.id
    /\ call.arg # <<>>
    /\ GetTotalTracks(cache) = MAX_TRACKS

\* C29: the unexpired entries other than the one being set that remain after
\* a set are, unchanged and in their order, those from some position k on;
\* the new list did not fit beside the entries from any earlier position on,
\* and it fits beside the ones that remain unless none remains.
EvictionIsMinimal ==
    [][call'.name = "set" =>
         \E live \in {Others(ExpireOldEntries(CacheState, now).cache, call'.id)} :
         \E k \in 1..(Len(live) + 1) :
            /\ Others(cache', call'.id) = SubSeq(live, k, Len(live))
            /\ call'.evicted = {live[j].id : j \in 1..(k - 1)}
            /\ \A j \in 1..(k - 1) :
                  GetTotalTracks(SubSeq(live, j, Len(live))) + Len(call'.arg) > MAX_TRACKS
            /\ k <= Len(live) =>
                  GetTotalTracks(SubSeq(live, k, Len(live))) + Len(call'.arg) <= MAX_TRACKS]_vars

\* a set evicted the oldest entry and stopped: a younger one is still cached
\* beside the new list, and the cache is full
EvictionIsMinimalWitness ==
    /\ call.name = "set"
    /\ ~call.held
    /\ Cardinality(call.evicted) = 1
    /\ Len(cache) = 2
    /\ call.arg # <<>>
    /\ GetTotalTracks(cache) = MAX_TRACKS

\* C30: an invalidate of a cached id (the call the refresh key makes for the
\* collection on view) removes the entry and the timestamp of that id and
\* leaves every other entry, the order of the others and their timestamps as
\* they were.
InvalidateRemovesOnlyTarget ==
    [][(call'.name = "invalidate" /\ call'.id \in Keys(cache)) =>
         /\ cache' = Others(cache, call'.id)
         /\ call'.id \notin Keys(cache')
         /\ timestamps'[call'.id] = NoTime
         /\ \A id \in Ids \ {call'.id} : timestamps'[id] = timestamps[id]]_vars

\* an invalidate removed a cached id and two other entries are still there
InvalidateRemovesOnlyTargetWitness ==
    /\ call.name = "invalidate"
    /\ call.held
    /\ call.id \notin Keys(cache)
    /\ Len(cache) = 2
    /\ \A id \in Keys(cache) : timestamps[id] # NoTime

\* C31: with auto-play on and a track of a non-empty list playing, a natural
\* EOF that follows a pre-fetch which stored nothing moves the playing index
\* to the next track and posts a play request for it without pre-fetched data.
PrefetchFailureDegrades ==
    [][(/\ ev'.name = "end_file"
        /\ ev.fetched
        /\ prefetches = 0
        /\ prefetched_track_id = NoTrack
        /\ config_auto_play
        /\ current_playing_index # NoIndex
        /\ tracks # <<>>
        /\ EndFile("EOF")) =>
          /\ ev'.posted # <<>>
          /\ current_playing_index' = NextHere.index
          /\ ev'.posted[1].track_id = tracks[NextHere.index + 1].id
          /\ ev'.posted[1].prefetched_url = <<>>
          /\ ev'.posted[1].prefetched_metadata = <<>>
          /\ inbox' = Append(inbox, ev'.posted[1])]_vars

\* a natural EOF after a failed pre-fetch posted a request without a url
PrefetchFailureDegradesWitness ==
    /\ ev.name = "end_file"
    /\ ev.after_fetch
    /\ prefetches = 0
    /\ ev.posted # <<>>
    /\ ev.posted[1].prefetched_url = <<>>
    /\ ev.posted[1].track_id = tracks[current_playing_index + 1].id

\* C32: whenever a non-empty track list is loaded (no load is in flight), the
\* indexes next and previous return are indexes of that list.
ComputedIndicesInRange ==
    (tracks # <<>> /\ loads = <<>>) =>
        /\ ~NextHere.raised /\ InRange(NextHere.index)
        /\ ~PreviousHere.raised /\ InRange(PreviousHere.index)

\* C33: after a set the cache holds at most max_tracks tracks, or it holds
\* one entry only, the one the set inserted.
BoundOrSingleEntry ==
    call.name = "set" =>
        \/ GetTotalTracks(cache) <= MAX_TRACKS
        \/ /\ Len(cache) = 1
           /\ cache[1] = [id |-> call.id, tracks |-> call.arg]

\* a list longer than max_tracks evicted two entries and is cached alone
BoundOrSingleEntryWitness ==
    /\ call.name = "set"
    /\ Cardinality(call.evicted) = 2
    /\ Len(call.arg) > MAX_TRACKS
    /\ Len(cache) = 1
    /\ GetTotalTracks(cache) = Len(call.arg)

\* C34: the cache holds no list that came from a failed fetch: every
\* collection of the service has tracks, so no cached list is empty.
FailedFetchNotCached ==
    \A id \in Keys(cache) : api[id] > 0 => Lookup(cache, id) # <<>>

FailedPlayKeepsIndex ==
    [][(/\ ev.name \in {"play_next", "play_previous"}
        /\ ev.posted # <<>>
        /\ ev.from # NoIndex
        /\ ev'.name = "track_selected"
        /\ ~ev'.playback.result.success) =>
          current_playing_index' = ev.from]_vars

\* the loaded list is not empty and the shuffle branch, if it is taken, runs
\* on a permutation of the indexes of the list
OrderMatchesList ==
    /\ tracks # <<>>
    /\ (config_shuffle /\ shuffled_indices # <<>>) =>
          IsPermutation(shuffled_indices, Len(tracks))

\* previous computed at the index and position that next left when computed at k
PreviousOfNext(k, position) ==
    LET next == GetNextTrackIndex(config_shuffle, shuffled_indices, position, k, Len(tracks))
    IN GetPreviousTrackIndex(config_shuffle, shuffled_indices, next.position,
                             next.index, Len(tracks)).index

\* next computed at the index and position that previous left when computed at k
NextOfPrevious(k, position) ==
    LET previous == GetPreviousTrackIndex(config_shuffle, shuffled_indices, position,
                                          k, Len(tracks))
    IN GetNextTrackIndex(config_shuffle, shuffled_indices, previous.position,
                         previous.index, Len(tracks)).index

\* C37: for a loaded list of N >= 1 tracks, sequential or shuffled by a
\* permutation of [0, N), and every index k of the list, previous at next(k)
\* is k and next at previous(k) is k.
NextPreviousInverse ==
    OrderMatchesList =>
       \A k \in 0..(Len(tracks) - 1) :
       \A position \in {shuffle_position} \cup (0..(Len(tracks) - 1)) :
          /\ PreviousOfNext(k, position) = k
          /\ NextOfPrevious(k, position) = k

\* a previous key went back along a shuffle order of three that is not the
\* order of the list
NextPreviousInverseWitness ==
    /\ OrderMatchesList
    /\ config_shuffle
    /\ Len(shuffled_indices) = 3
    /\ shuffled_indices # <<0, 1, 2>>
    /\ ev.name = "play_previous"
    /\ ev.from \in 0..2
    /\ current_playing_index = BeforeInShuffle(ev.from)
    /\ PreviousOfNext(current_playing_index, shuffle_position) = current_playing_index

\* C38: after every call an id has a timestamp if and only if it has a
\* cached track list.
SameKeySets ==
    DictKeys(timestamps) = Keys(cache)

\* a get found its entry expired and removed with its timestamp, while
\* another entry and its timestamp are still there
SameKeySetsWitness ==
    /\ call.name = "get"
    /\ ~call.hit
    /\ insertedAt[call.id] # NoTime
    /\ timestamps[call.id] = NoTime
    /\ call.id \notin Keys(cache)
    /\ \E id \in Keys(cache) : timestamps[id] # NoTime

====
